---- MODULE Spec2Model ----
(***************************************************************************)
(* State machine of HostedPluginSupport (hosted-plugin.ts): the debounced, *)
(* serially chained load queue, one reconciliation pass (doLoad) with its  *)
(* suspension points, the tracked PluginContributions, the per-host        *)
(* PluginManagerExt channels, the activation-event set and the command     *)
(* interception.                                                           *)
(***************************************************************************)
EXTENDS Naturals, Sequences, FiniteSets, TLC

\* ------------------------------------------------------------------ inputs

\* Plugins the deployment source can report. p1 and p2 have a frontend entry
\* point, p3 has none; all three declare the host 'main'.
PluginIds == {"p1", "p2", "p3"}

\* Longest chain of passes scheduled on loadQueue and not yet settled.
MaxQueue == 2

\* plugin.model.entryPoint.frontend is set
frontendEntry(p) == p \in {"p1", "p2"}

\* plugin.host
pluginHost(p) == "main"

Hosts == {"frontend", "main"}

\* Activation events fired directly and commands executed through the registry.
DirectEvents == {"onLanguage:l1", "onView:v1"}
Commands == {"c1"}

\* activateByCommand: `onCommand:${commandId}`
CommandEvent(c) == "onCommand:" \o c

\* View and language ids handed to activateByView and activateByLanguage.
Views == {"v1"}
Languages == {"l1"}

\* monacoTextmateService.activatedLanguages when init() runs.
ActivatedLanguages == SUBSET Languages

\* An optional string argument: <<>> is undefined, <<s>> is the string s.
Optional(strings) == {<<>>} \cup {<<x>> : x \in strings}

\* DebugActivationEvent and the debug types handed to activateByDebug.
DebugActivationEvents == {"onDebugResolve"}
DebugTypes == {"", "node"}

\* activateByView: `onView:${viewId}`
ViewEvent(v) == "onView:" \o v

\* activateByLanguage: `onLanguage:${languageId}`
LanguageEvent(l) == "onLanguage:" \o l

\* activateByDebug: activationEvent + ':' + debugType
TypedEvent(a, t) == a \o ":" \o t

Range(s) == {s[j] : j \in DOMAIN s}

\* Ordered sets of ids, as getDeployedPluginIds returns them: nothing deployed, one
\* plugin of either kind, two frontend plugins, and a frontend and a backend plugin
\* in both orders.
Snapshots == {<<>>, <<"p1">>, <<"p3">>, <<"p1", "p2">>, <<"p1", "p3">>, <<"p3", "p1">>}

\* ------------------------------------------------------------------ state

VARIABLES
    deployed,          \* server: the ids currently deployed, in the order reported
    connected,         \* the connection to the server is open
    container,         \* onStart has run
    debounce,          \* lodash.debounce around load: [timer, lastArgs]
    loadQueue,         \* the chain of passes hanging off this.loadQueue
    contributions,     \* this.contributions: insertion-ordered map id -> PluginContributions
    retired,           \* toDisconnect collections of passes that have returned
    managers,          \* this.managers: host keys with a manager
    rpc,               \* per host: the RPC channel behind the manager
    activationEvents,  \* this.activationEvents
    activations,       \* activateByEvent calls awaiting their notifications
    handlers,          \* commands for which the plugin has registered a handler
    interceptions,     \* promises handed to event.waitUntil and not yet resolved
    registered,        \* per id: static contributions currently applied
    stopped,           \* $stop calls issued by the last step: <<id, host>> in order
    fired,             \* onDidChangePlugins events fired by the last step
    done,              \* outcome of the pass that returned in the last step
    returned,          \* activateByEvent calls that returned in the last step
    deployer,          \* server: the HostedPluginDeployerHandler and the calls made to it
    probe,             \* one run of activateByWorkspaceContains
    wrapper,           \* calls of activateByView, -Language, -Command, -Debug: pending or just ended
    treeView           \* plugin side: one TreeViewExtImpl

\* The state of HostedPluginSupport.
hosted == <<deployed, connected, container, debounce, loadQueue, contributions, retired,
            managers, rpc, activationEvents, activations, handlers, interceptions,
            registered, stopped, fired, done, returned>>

vars == <<deployed, connected, container, debounce, loadQueue, contributions, retired,
          managers, rpc, activationEvents, activations, handlers, interceptions,
          registered, stopped, fired, done, returned, deployer, probe, wrapper, treeView>>

\* PluginContributions.State
INITIALIZING == "INITIALIZING"
LOADING == "LOADING"
LOADED == "LOADED"
STARTING == "STARTING"
STARTED == "STARTED"

\* ------------------------------------------------------------------ helpers

\* A disposable: what its dispose() does, and the entry and host it closes over.
Disp(kind, id, host) == [kind |-> kind, id |-> id, host |-> host]

Marker == Disp("marker", "", "")

Keys(c) == {c[j].id : j \in DOMAIN c}

Get(c, id) == c[CHOOSE j \in DOMAIN c : c[j].id = id]

Put(c, e) ==
    IF e.id \in Keys(c)
    THEN [j \in DOMAIN c |-> IF c[j].id = e.id THEN e ELSE c[j]]
    ELSE Append(c, e)

Delete(c, id) == SelectSeq(c, LAMBDA e : e.id # id)

RemoveFirst(s, x) ==
    IF x \in Range(s)
    THEN LET j == CHOOSE k \in DOMAIN s : s[k] = x /\ \A l \in 1..(k - 1) : s[l] # x
         IN  SubSeq(s, 1, j - 1) \o SubSeq(s, j + 1, Len(s))
    ELSE s

\* DisposableCollection.disposed
Disposed(coll) == Len(coll) = 0

\* plugin.model.activationEvents, each a prefix and the characters after the
\* colon: p1 is activated by its command, by a file and by a pattern.
ActivationEventsOf(id) ==
    IF id = "p1"
    THEN {<<"onCommand", <<c>>>> : c \in Commands}
         \cup {<<"workspaceContains", <<"a">>>>, <<"workspaceContains", <<"*", "a">>>>}
    ELSE {<<"*", <<>>>>}

\* The PluginMetadata the server has for a plugin. p1 declares the commands.
PluginRecord(id) ==
    [host |-> pluginHost(id),
     model |-> [id |-> id,
                entryPoint |-> IF frontendEntry(id) THEN "frontend" ELSE "backend",
                contributes |-> IF id = "p1" THEN Commands ELSE {},
                activationEvents |-> ActivationEventsOf(id)]]

\* delete object[name], for each of the names
Omit(object, names) == [x \in DOMAIN object \ names |-> object[x]]

\* Mutant of StripMetadata: the model is not copied, and the two properties are
\* deleted from the model the tracked record shares.
StripMetadataShared(plugin) ==
    LET model == Omit(plugin.model, {"contributes", "activationEvents"})
    IN  [metadata |-> [plugin EXCEPT !.model = model], plugin |-> [plugin EXCEPT !.model = model]]

\* The metadata sent with $start: a copy of the record with a copy of its model,
\* from which contributes and activationEvents are deleted. plugin is the record
\* of the tracker after that.
StripMetadata(plugin) ==
    LET model == Omit(plugin.model, {"contributes", "activationEvents"})
    IN  [metadata |-> [plugin EXCEPT !.model = model], plugin |-> plugin]

\* new PluginContributions(plugin)
NewContributions(id) ==
    [id |-> id, state |-> INITIALIZING, disp |-> <<>>, plugin |-> PluginRecord(id)]

\* Events a channel can be told about.
AllEvents ==
    DirectEvents \cup {CommandEvent(c) : c \in Commands}
        \cup {ViewEvent(v) : v \in Views} \cup {LanguageEvent(l) : l \in Languages}
        \cup {"onDebug"} \cup DebugActivationEvents
        \cup {TypedEvent(a, t) : a \in DebugActivationEvents, t \in DebugTypes}

\* No transport; also the fields of a transport that was just created.
NoChannel == [transport |-> FALSE, initSent |-> FALSE, initDone |-> FALSE, startIssued |-> FALSE,
              carried |-> {}, notified |-> [e \in AllEvents |-> 0], activated |-> {}]

\* No call of a wrapper has been made. A call is a record of its name, its
\* arguments, fired: the events it handed to activateByEvent, in order, added:
\* those of them whose activateByEvent call had notifications to await, waiting:
\* those still awaited, and pc: waiting, returned or rejected.
NoWrapper == {}

\* The calls of x that are in their await: those that ended did so in the last step.
Idle(x) == {c \in x : c.pc = "waiting"}

\* new TreeViewExtImpl: nothing selected, not visible. selectedItemIds is the Set
\* in its insertion order. ids and changed record the last setSelection call: its
\* argument and the selection events it fired.
NewTreeView == [selectedItemIds |-> <<>>, visible |-> FALSE, ids |-> <<>>, changed |-> 0]

NewPass == [pc |-> "scheduled", td |-> <<>>, toUnload |-> {}, pluginIds |-> <<>>,
            byHost |-> <<>>, k |-> 0, tasks |-> {}]

\* The part of the state that running a disposable can change.
\* ran lists the disposables of entries that a step has run, in the order run.
World == [c |-> contributions, mgr |-> managers, rpc |-> rpc, q |-> loadQueue,
          r |-> retired, reg |-> registered, stops |-> <<>>, ran |-> <<>>]

\* toRemove.dispose() of a push into some toDisconnect: splice the element out.
SpliceToDisconnect(w, d) ==
    [w EXCEPT !.r = RemoveFirst(@, d),
              !.q = [j \in DOMAIN @ |-> [@[j] EXCEPT !.td = RemoveFirst(@, d)]]]

\* An entry that left the tracker is unreachable: the disposables that close over
\* it can no longer change any state that is read.
Forget(w, id) ==
    LET keep(d) == ~(d.kind = "downgrade" /\ d.id = id)
        live(t) == [t EXCEPT !.entries = SelectSeq(@, LAMBDA x : x # id)]
    IN  [w EXCEPT !.r = SelectSeq(@, keep),
                  !.q = [j \in DOMAIN @ |->
                           [@[j] EXCEPT !.td = SelectSeq(@, keep),
                                        !.tasks = {live(t) : t \in @}]]]

\* Mutant of RunDisconnect: the disposable pushed by loadContributions leaves the
\* state of the entry alone.
RunDisconnectKeepState(d, w) ==
    CASE d.kind = "managers.delete" -> [w EXCEPT !.mgr = @ \ {d.host}]
      [] d.kind = "rpc" -> [w EXCEPT !.rpc[d.host] = NoChannel]
      [] d.kind = "detach" ->
            IF d.id \in Keys(w.c)
            THEN [w EXCEPT !.c = Put(@, [Get(@, d.id) EXCEPT
                                            !.disp = RemoveFirst(@, Disp("stop", d.id, d.host))])]
            ELSE w
      [] OTHER -> w

\* Mutant of RunDisconnect: the transport is not disposed.
RunDisconnectKeepRpc(d, w) ==
    CASE d.kind = "downgrade" ->
            IF d.id \in Keys(w.c)
            THEN [w EXCEPT !.c = Put(@, [Get(@, d.id) EXCEPT !.state = LOADED])]
            ELSE w
      [] d.kind = "managers.delete" -> [w EXCEPT !.mgr = @ \ {d.host}]
      [] d.kind = "detach" ->
            IF d.id \in Keys(w.c)
            THEN [w EXCEPT !.c = Put(@, [Get(@, d.id) EXCEPT
                                            !.disp = RemoveFirst(@, Disp("stop", d.id, d.host))])]
            ELSE w
      [] OTHER -> w

\* Mutant of RunDisconnect: the stop action stays in the collection of the entry.
RunDisconnectKeepStop(d, w) ==
    CASE d.kind = "downgrade" ->
            IF d.id \in Keys(w.c)
            THEN [w EXCEPT !.c = Put(@, [Get(@, d.id) EXCEPT !.state = LOADED])]
            ELSE w
      [] d.kind = "managers.delete" -> [w EXCEPT !.mgr = @ \ {d.host}]
      [] d.kind = "rpc" -> [w EXCEPT !.rpc[d.host] = NoChannel]
      [] OTHER -> w

\* dispose() of one element of a toDisconnect collection.
RunDisconnect(d, w) ==
    CASE d.kind = "downgrade" ->
            IF d.id \in Keys(w.c)
            THEN [w EXCEPT !.c = Put(@, [Get(@, d.id) EXCEPT !.state = LOADED])]
            ELSE w
      [] d.kind = "managers.delete" -> [w EXCEPT !.mgr = @ \ {d.host}]
      [] d.kind = "rpc" -> [w EXCEPT !.rpc[d.host] = NoChannel]
      [] d.kind = "detach" ->
            IF d.id \in Keys(w.c)
            THEN [w EXCEPT !.c = Put(@, [Get(@, d.id) EXCEPT
                                            !.disp = RemoveFirst(@, Disp("stop", d.id, d.host))])]
            ELSE w
      [] OTHER -> w

\* DisposableCollection.dispose() of a toDisconnect collection: pop and dispose.
RECURSIVE DisposeToDisconnect(_, _)
DisposeToDisconnect(coll, w) ==
    IF Disposed(coll) THEN w
    ELSE DisposeToDisconnect(SubSeq(coll, 1, Len(coll) - 1), RunDisconnect(coll[Len(coll)], w))

\* dispose() of one element of a PluginContributions collection.
RunUnload(d, w) ==
    CASE d.kind = "stop" ->
            LET u == SpliceToDisconnect(w, Disp("detach", d.id, d.host))
            IN  [u EXCEPT !.stops = Append(@, <<d.id, d.host>>)]
      [] d.kind = "handled" -> [w EXCEPT !.reg[d.id] = @ - 1]
      [] d.kind = "contributions.delete" -> Forget([w EXCEPT !.c = Delete(@, d.id)], d.id)
      [] OTHER -> w

\* Mutant of DisposeContributions: the elements are disposed in the order in
\* which they were pushed.
RECURSIVE DisposeContributionsForward(_, _)
DisposeContributionsForward(coll, w) ==
    IF Disposed(coll) THEN w
    ELSE DisposeContributionsForward(Tail(coll),
                                     RunUnload(Head(coll), [w EXCEPT !.ran = Append(@, Head(coll))]))

\* contribution.dispose(): pop and dispose, last pushed first.
RECURSIVE DisposeContributions(_, _)
DisposeContributions(coll, w) ==
    IF Disposed(coll) THEN w
    ELSE DisposeContributions(SubSeq(coll, 1, Len(coll) - 1),
                              RunUnload(coll[Len(coll)],
                                        [w EXCEPT !.ran = Append(@, coll[Len(coll)])]))

\* ------------------------------------------------------------------ load queue

\* Mutant of ThenReady: the pass is started by the signal instead of being chained.
ThenReadyUnchained(q, i) == TRUE

\* A callback chained with then() runs once the promise it hangs off is settled.
ThenReady(q, i) == \A j \in 1..(i - 1) : q[j].pc = "settled"

\* The debounced function body: this.loadQueue = this.loadQueue.then(...)
Invoke(q) == Append(q, NewPass)

\* Mutant of Load: every call invokes.
LoadUndebounced(q, d) == [q |-> Invoke(q), d |-> [timer |-> TRUE, lastArgs |-> FALSE]]

\* lodash.debounce(func, 50, { leading: true }): a call outside a window invokes
\* at once and opens the window; a call inside it is remembered for the trailing edge.
Load(q, d) ==
    IF d.timer
    THEN [q |-> q, d |-> [timer |-> TRUE, lastArgs |-> TRUE]]
    ELSE [q |-> Invoke(q), d |-> [timer |-> TRUE, lastArgs |-> FALSE]]

\* Room on the chain for the pass a signal may schedule.
Room == Len(loadQueue) < MaxQueue

Quiet ==
    /\ fired' = 0 /\ done' = "none" /\ returned' = {} /\ stopped' = <<>>
    /\ UNCHANGED <<deployer, probe, treeView>> /\ wrapper' = Idle(wrapper)

\* onStart(container): the first load()
OnStart ==
    /\ ~container
    /\ container' = TRUE
    /\ LET l == Load(loadQueue, debounce)
       IN  loadQueue' = l.q /\ debounce' = l.d
    /\ Quiet
    /\ UNCHANGED <<deployed, connected, contributions, retired, managers, rpc, activationEvents,
                   activations, handlers, interceptions, registered>>

\* watcher.onDidDeploy: the server deployed a new snapshot, one of the given ones,
\* and tells the client.
Deploy(snapshots) ==
    /\ container /\ connected /\ Room
    /\ \E s \in snapshots \ {deployed} : deployed' = s
    /\ LET l == Load(loadQueue, debounce)
       IN  loadQueue' = l.q /\ debounce' = l.d
    /\ Quiet
    /\ UNCHANGED <<connected, container, contributions, retired, managers, rpc, activationEvents,
                   activations, handlers, interceptions, registered>>

DidDeploy == Deploy(Snapshots)

\* server.onDidOpenConnection
OpenConnection ==
    /\ container /\ ~connected /\ Room
    /\ connected' = TRUE
    /\ LET l == Load(loadQueue, debounce)
       IN  loadQueue' = l.q /\ debounce' = l.d
    /\ Quiet
    /\ UNCHANGED <<deployed, container, contributions, retired, managers, rpc, activationEvents,
                   activations, handlers, interceptions, registered>>

\* The debounce window ends: the trailing edge invokes if a call was remembered.
DebounceTimeout ==
    /\ debounce.timer
    /\ debounce.lastArgs => Room
    /\ debounce' = [timer |-> FALSE, lastArgs |-> FALSE]
    /\ loadQueue' = IF debounce.lastArgs THEN Invoke(loadQueue) ELSE loadQueue
    /\ Quiet
    /\ UNCHANGED <<deployed, connected, container, contributions, retired, managers, rpc,
                   activationEvents, activations, handlers, interceptions, registered>>

\* ------------------------------------------------------------------ one pass

CommitHosted(w) ==
    /\ contributions' = w.c
    /\ managers' = w.mgr
    /\ rpc' = w.rpc
    /\ loadQueue' = w.q
    /\ retired' = w.r
    /\ registered' = w.reg
    /\ stopped' = w.stops

Commit(w) == CommitHosted(w) /\ UNCHANGED <<deployer, probe, treeView>> /\ wrapper' = Idle(wrapper)

\* Mutant of Settle: load has no catch block, and the promise of the pass is
\* rejected instead of settled.
SettleRejected(w, i) == [w EXCEPT !.q[i].pc = "rejected"]

\* doLoad has returned or thrown: the promise of the pass settles. A pass whose
\* start tasks can still act keeps its toDisconnect to itself until they have ended.
Settle(w, i) ==
    LET p == w.q[i]
        rest == SubSeq(w.q, 1, i - 1) \o SubSeq(w.q, i + 1, Len(w.q))
    IN  IF Disposed(p.td) \/ p.tasks = {}
        THEN [w EXCEPT !.q = rest,
                       !.r = @ \o SelectSeq(p.td, LAMBDA d : d # Marker)]
        ELSE [w EXCEPT !.q[i] = [NewPass EXCEPT !.pc = "settled", !.td = p.td, !.tasks = p.tasks]]

\* The then() callback of load runs: doLoad creates toDisconnect, listens for the
\* connection to close, and syncPlugins asks the server for the deployed ids.
DoLoad(i) ==
    /\ loadQueue[i].pc = "scheduled"
    /\ ThenReady(loadQueue, i)
    /\ loadQueue' = [loadQueue EXCEPT ![i] = [@ EXCEPT !.pc = "sync_ids",
                                                        !.td = <<Marker>>,
                                                        !.toUnload = Keys(contributions)]]
    /\ Quiet
    /\ UNCHANGED <<deployed, connected, container, debounce, contributions, retired, managers, rpc,
                   activationEvents, activations, handlers, interceptions, registered>>

\* for (const pluginId of toUnload) contribution.dispose()
RECURSIVE UnloadAll(_, _)
UnloadAll(ids, w) ==
    IF ids = <<>> THEN w
    ELSE UnloadAll(Tail(ids),
                   IF Head(ids) \in Keys(w.c)
                   THEN DisposeContributions(Get(w.c, Head(ids)).disp, w)
                   ELSE w)

\* Mutant of ChangeEvents: the event is fired at the end of every sync.
ChangeEventsAlways(initialized, toUnload) == 1

\* The finally block of syncPlugins.
ChangeEvents(initialized, toUnload) == IF initialized > 0 \/ toUnload # {} THEN 1 ELSE 0

\* Mutant of SyncIds: toUnload.delete(pluginId) is missing, so every tracked entry
\* is unloaded.
SyncIdsUnloadAll(w, i, deployedPluginIds) ==
    LET p == w.q[i]
        toUnload == p.toUnload
        order == SelectSeq([j \in DOMAIN w.c |-> w.c[j].id], LAMBDA id : id \in toUnload)
        u == UnloadAll(order, w)
        pluginIds == SelectSeq(deployedPluginIds, LAMBDA id : id \notin Keys(w.c))
    IN  [u EXCEPT !.q[i] = [@ EXCEPT !.pc = IF pluginIds = <<>> THEN "wait_layout" ELSE "sync_plugins",
                                     !.toUnload = toUnload,
                                     !.pluginIds = pluginIds]]

\* syncPlugins up to the second request: the deployed ids arrive, what is no longer
\* deployed is disposed, and the records of the ids not yet tracked are requested.
SyncIds(w, i, deployedPluginIds) ==
    LET p == w.q[i]
        toUnload == p.toUnload \ Range(deployedPluginIds)
        pluginIds == SelectSeq(deployedPluginIds, LAMBDA id : id \notin Keys(w.c))
        order == SelectSeq([j \in DOMAIN w.c |-> w.c[j].id], LAMBDA id : id \in toUnload)
        u == UnloadAll(order, w)
    IN  [u EXCEPT !.q[i] = [@ EXCEPT !.pc = IF pluginIds = <<>> THEN "wait_layout" ELSE "sync_plugins",
                                     !.toUnload = toUnload,
                                     !.pluginIds = pluginIds]]

\* for (const plugin of plugins): track a new PluginContributions per record.
RECURSIVE Track(_, _)
Track(plugins, w) ==
    IF plugins = <<>> THEN w
    ELSE LET id == Head(plugins)
             entry == [NewContributions(id) EXCEPT !.disp = <<Disp("contributions.delete", id, "")>>]
         IN  Track(Tail(plugins), [w EXCEPT !.c = Put(@, entry)])

\* The rest of syncPlugins: the requested records arrive.
\* Mutant of SyncPlugins: doLoad goes on without waiting for the layout and
\* without loading the contributions.
SyncPluginsSkipLayout(w, i, plugins) ==
    [Track(plugins, w) EXCEPT !.q[i] = [@ EXCEPT !.pc = "wait_ready", !.pluginIds = <<>>]]

SyncPlugins(w, i, plugins) ==
    [Track(plugins, w) EXCEPT !.q[i] = [@ EXCEPT !.pc = "wait_layout", !.pluginIds = <<>>]]

\* getDeployedPluginIds answers.
DeployedPluginIds(i) ==
    /\ loadQueue[i].pc = "sync_ids"
    /\ connected
    /\ LET w == SyncIds(World, i, deployed)
       IN  /\ Commit(w)
           /\ fired' = IF w.q[i].pc = "wait_layout" THEN ChangeEvents(0, w.q[i].toUnload) ELSE 0
    /\ done' = "none" /\ returned' = {}
    /\ UNCHANGED <<deployed, connected, container, debounce, activationEvents, activations,
                   handlers, interceptions>>

\* getDeployedPluginIds rejects: the finally block of syncPlugins still runs, with
\* toUnload as it was filled before the request, and doLoad throws into the catch
\* block of load.
DeployedPluginIdsFailed(i) ==
    /\ loadQueue[i].pc = "sync_ids"
    /\ Commit(Settle(World, i))
    /\ fired' = ChangeEvents(0, loadQueue[i].toUnload)
    /\ done' = "failed" /\ returned' = {}
    /\ UNCHANGED <<deployed, connected, container, debounce, activationEvents, activations,
                   handlers, interceptions>>

\* getDeployedPlugins answers with the records the server has at that moment.
DeployedPlugins(i) ==
    /\ loadQueue[i].pc = "sync_plugins"
    /\ connected
    /\ LET plugins == SelectSeq(loadQueue[i].pluginIds, LAMBDA id : id \in Range(deployed))
       IN  /\ Commit(SyncPlugins(World, i, plugins))
           /\ fired' = ChangeEvents(Len(plugins), loadQueue[i].toUnload)
    /\ done' = "none" /\ returned' = {}
    /\ UNCHANGED <<deployed, connected, container, debounce, activationEvents, activations,
                   handlers, interceptions>>

\* const host = plugin.model.entryPoint.frontend ? 'frontend' : plugin.host
HostKey(id) == IF frontendEntry(id) THEN "frontend" ELSE pluginHost(id)

\* The key of hostContributions.get(...)
LookupKey(id) == pluginHost(id)

\* Mutant of LoadOne: an entry that is already STARTED is enqueued again.
LoadOneRestart(a, j) ==
    LET e0 == a.c[j]
        id == e0.id
        found == HostKey(id) \in Range(a.keys)
        arr == IF found THEN a.ref[HostKey(id)] ELSE Len(a.heap) + 1
    IN  IF e0.state \in {INITIALIZING, LOADED, STARTED}
        THEN [a EXCEPT !.c[j] = [e0 EXCEPT !.state = STARTING],
                       !.heap = IF found THEN [@ EXCEPT ![arr] = Append(@, id)]
                                         ELSE Append(@, <<id>>),
                       !.keys = IF HostKey(id) \in Range(@) THEN @ ELSE Append(@, HostKey(id)),
                       !.ref = [@ EXCEPT ![HostKey(id)] = arr],
                       !.td = Append(@, Disp("downgrade", id, ""))]
        ELSE a

\* One iteration of the loop of loadContributions. a.keys is the key order of
\* hostContributions, a.ref the array each key refers to, a.heap the arrays,
\* a.bad the plugins for which handleContributions throws; a.thrown is set when
\* it has thrown, with the entry left in LOADING behind its first disposable.
LoadOne(a, j) ==
    LET e0 == a.c[j]
        id == e0.id
        init == e0.state = INITIALIZING
        e1 == IF init
              THEN [e0 EXCEPT !.state = LOADED,
                              !.disp = @ \o <<Disp("log", id, ""), Disp("handled", id, "")>>]
              ELSE e0
        a1 == IF init THEN [a EXCEPT !.c[j] = e1, !.reg[id] = @ + 1] ELSE a
        host == HostKey(id)
        found == LookupKey(id) \in Range(a1.keys)
        arr == IF found THEN a1.ref[LookupKey(id)] ELSE Len(a1.heap) + 1
    IN  IF init /\ id \in a.bad
        THEN [a EXCEPT !.c[j] = [e0 EXCEPT !.state = LOADING,
                                           !.disp = Append(@, Disp("log", id, ""))],
                       !.thrown = TRUE]
        ELSE IF e1.state = LOADED
        THEN [a1 EXCEPT !.c[j] = [e1 EXCEPT !.state = STARTING],
                        !.heap = IF found THEN [@ EXCEPT ![arr] = Append(@, id)]
                                          ELSE Append(@, <<id>>),
                        !.keys = IF host \in Range(@) THEN @ ELSE Append(@, host),
                        !.ref = [@ EXCEPT ![host] = arr],
                        !.td = Append(@, Disp("downgrade", id, ""))]
        ELSE a1

RECURSIVE LoadFrom(_, _)
LoadFrom(a, j) == IF j > Len(a.c) \/ a.thrown THEN a ELSE LoadFrom(LoadOne(a, j), j + 1)

\* The loop of loadContributions over this.contributions.values().
LoadAll(w, i, bad) ==
    LoadFrom([c |-> w.c, reg |-> w.reg, td |-> w.q[i].td, keys |-> <<>>,
              ref |-> [h \in Hosts |-> 0], heap |-> <<>>, bad |-> bad, thrown |-> FALSE], 1)

\* loadContributions(toDisconnect)
LoadContributions(w, i) ==
    LET a == LoadAll(w, i, {})
        byHost == [n \in DOMAIN a.keys |-> [host |-> a.keys[n], entries |-> a.heap[a.ref[a.keys[n]]]]]
    IN  [w EXCEPT !.c = a.c,
                  !.reg = a.reg,
                  !.q[i] = [@ EXCEPT !.td = a.td, !.byHost = byHost, !.pc = "wait_ready"]]

\* reachedState('initialized_layout') resolves: doLoad goes on to loadContributions.
LayoutInitialized(i) ==
    /\ loadQueue[i].pc = "wait_layout"
    /\ IF Disposed(loadQueue[i].td)
       THEN Commit(Settle(World, i)) /\ done' = "disconnected"
       ELSE Commit(LoadContributions(World, i)) /\ done' = "none"
    /\ fired' = 0 /\ returned' = {}
    /\ UNCHANGED <<deployed, connected, container, debounce, activationEvents, activations,
                   handlers, interceptions>>

\* reachedState('initialized_layout') resolves and handleContributions throws for
\* one plugin: loadContributions has no catch block, so the loop ends there and
\* doLoad throws into the catch block of load. What the loop had pushed to
\* toDisconnect stays with the listener for the connection to close.
HandleContributionsFailed(i) ==
    /\ loadQueue[i].pc = "wait_layout"
    /\ ~Disposed(loadQueue[i].td)
    /\ \E id \in Keys(contributions) :
          /\ Get(contributions, id).state = INITIALIZING
          /\ LET a == LoadAll(World, i, {id})
                 w == [World EXCEPT !.c = a.c, !.reg = a.reg, !.q[i].td = a.td]
             IN  Commit(Settle(w, i))
    /\ done' = "failed"
    /\ fired' = 0 /\ returned' = {}
    /\ UNCHANGED <<deployed, connected, container, debounce, activationEvents, activations,
                   handlers, interceptions>>

\* ------------------------------------------------------------------ workspaceContains: the run

\* Activation events a plugin can declare: a prefix and the characters after the
\* colon. One names a file, two hold a wildcard, one is of another kind.
Declared ==
    {<<"workspaceContains", <<"a">>>>, <<"workspaceContains", <<"*", "a">>>>,
     <<"workspaceContains", <<"a", "?">>>>, <<"onLanguage", <<"l">>>>}

\* plugin.model.activationEvents: absent, or some of the declared events.
Undefined == {<<"undefined", <<>>>>}
ActivationEventLists == {Undefined} \cup SUBSET Declared

\* /^workspaceContains:/.test(activationEvent)
IsWorkspaceContains(activationEvent) == activationEvent[1] = "workspaceContains"

\* fileNameOrGlob.indexOf('*') >= 0 || fileNameOrGlob.indexOf('?') >= 0
IsGlob(fileNameOrGlob) == \E j \in DOMAIN fileNameOrGlob : fileNameOrGlob[j] \in {"*", "?"}

\* The exact paths and the patterns among the activation events.
ExactPaths(events) ==
    {e[2] : e \in {x \in events : IsWorkspaceContains(x) /\ ~IsGlob(x[2])}}
IncludePatterns(events) ==
    {e[2] : e \in {x \in events : IsWorkspaceContains(x) /\ IsGlob(x[2])}}

\* `onPlugin:${plugin.model.id}`
InstallEvent(id) == "onPlugin:" \o id

\* No run of activateByWorkspaceContains has been made.
NoProbe ==
    [pc |-> "none", id |-> "", paths |-> {}, includePatterns |-> {},
     contains |-> "none",       \* workspaceService.containsSome: none, pending, true, false
     find |-> "none",           \* the search task: none, pending, true, false
     logged |-> FALSE,          \* console.error(e)
     timer |-> "none",          \* searchTimeout: none, armed, fired, cleared
     cancelled |-> FALSE,       \* tokenSource.token
     endless |-> FALSE,         \* the search does not answer of itself
     late |-> FALSE,            \* an install event was sent for a plugin that was not started then
     disposed |-> FALSE,        \* the channel of the manager the run was given is disposed
     sent |-> <<>>]             \* manager.$activateByEvent calls

\* The run of activateByWorkspaceContains for a plugin up to its await.
Launch(id, events, endless) ==
    IF events = Undefined
    THEN [NoProbe EXCEPT !.pc = "returned", !.id = id]
    ELSE LET paths == ExactPaths(events)
             includePatterns == IncludePatterns(events)
         IN  IF paths = {} /\ includePatterns = {}
             THEN [NoProbe EXCEPT !.pc = "returned", !.id = id]
             ELSE [NoProbe EXCEPT
                     !.pc = "probing", !.id = id,
                     !.paths = paths, !.includePatterns = includePatterns,
                     !.contains = IF paths # {} THEN "pending" ELSE "none",
                     !.find = IF includePatterns # {} THEN "pending" ELSE "none",
                     !.timer = IF includePatterns # {} THEN "armed" ELSE "none",
                     !.endless = includePatterns # {} /\ endless]

\* ------------------------------------------------------------------ startPlugins

\* Mutant of StartEvents: $start is sent without the accumulated events.
StartEventsNone(events) == {}

\* const activationEvents = [...this.activationEvents]
StartEvents(events) == events

\* The asynchronous task of one host up to its await:
\* manager.$start({ plugins, configStorage, activationEvents }). entries are the
\* ids of hostContributions that are still tracked, array the plugin records of
\* all of them, which the task keeps whatever happens to the tracker.
IssueStart(w, i, k, events) ==
    LET h == w.q[i].byHost[k].host
        entries == w.q[i].byHost[k].entries
        stripped == [n \in DOMAIN entries |-> StripMetadata(Get(w.c, entries[n]).plugin)]
        task == [host |-> h, entries |-> entries, events |-> StartEvents(events),
                 plugins |-> [n \in DOMAIN entries |-> stripped[n].metadata],
                 array |-> [n \in DOMAIN entries |-> stripped[n].plugin]]
    IN  [w EXCEPT !.c = [n \in DOMAIN @ |->
                           IF @[n].id \in Range(entries)
                           THEN [@[n] EXCEPT !.plugin = StripMetadata(@).plugin]
                           ELSE @[n]],
                  !.q[i].tasks = @ \cup {task},
                  !.rpc[h] = [@ EXCEPT !.startIssued = TRUE, !.carried = @ \cup task.events]]

\* obtainManager up to its first await, for a host without a manager.
CreateManager(w, i, h) ==
    [w EXCEPT !.rpc[h] = [NoChannel EXCEPT !.transport = TRUE],
              !.mgr = @ \cup {h},
              !.q[i].td = @ \o <<Disp("rpc", "", h), Disp("managers.delete", "", h)>>]

\* Mutant of HostLoop: obtainManager does not look the host up in this.managers
\* and creates a channel for every host.
HostLoopAlwaysCreate(w, i, k, events) ==
    IF k > Len(w.q[i].byHost)
    THEN [w EXCEPT !.q[i].pc = IF w.q[i].tasks = {} THEN "return" ELSE "join", !.q[i].k = 0]
    ELSE [CreateManager(w, i, w.q[i].byHost[k].host) EXCEPT !.q[i].pc = "obtain_api", !.q[i].k = k]

\* The for loop of startPlugins from its k-th host on, up to the next await.
RECURSIVE HostLoop(_, _, _, _)
HostLoop(w, i, k, events) ==
    LET p == w.q[i]
    IN  IF k > Len(p.byHost)
        THEN [w EXCEPT !.q[i].pc = IF p.tasks = {} THEN "return" ELSE "join", !.q[i].k = 0]
        ELSE IF p.byHost[k].host \in w.mgr
             THEN HostLoop(IssueStart(w, i, k, events), i, k + 1, events)
             ELSE [CreateManager(w, i, p.byHost[k].host) EXCEPT !.q[i].pc = "obtain_api", !.q[i].k = k]

\* Settle the pass when the step has run doLoad to its end.
Finish(w, i) == IF i \in DOMAIN w.q /\ w.q[i].pc = "return" THEN Settle(w, i) ELSE w

Outcome(w, i) == IF i \in DOMAIN w.q /\ w.q[i].pc = "return" THEN "completed" ELSE "none"

\* initWidgets, theiaReadyPromise and the two paths have resolved.
Ready(i) ==
    /\ loadQueue[i].pc = "wait_ready"
    /\ IF Disposed(loadQueue[i].td)
       THEN Commit(Settle(World, i)) /\ done' = "disconnected"
       ELSE LET w == HostLoop(World, i, 1, activationEvents)
            IN  Commit(Finish(w, i)) /\ done' = Outcome(w, i)
    /\ fired' = 0 /\ returned' = {}
    /\ UNCHANGED <<deployed, connected, container, debounce, activationEvents, activations,
                   handlers, interceptions>>

\* getExtPluginAPI and the stored values arrive: obtainManager sends $init.
ExtPluginApi(i) ==
    /\ loadQueue[i].pc = "obtain_api"
    /\ connected \/ Disposed(loadQueue[i].td)
    /\ IF Disposed(loadQueue[i].td)
       THEN Commit(Settle(World, i)) /\ done' = "disconnected"
       ELSE LET h == loadQueue[i].byHost[loadQueue[i].k].host
            IN  /\ Commit([World EXCEPT !.q[i].pc = "obtain_init", !.rpc[h].initSent = TRUE])
                /\ done' = "none"
    /\ fired' = 0 /\ returned' = {}
    /\ UNCHANGED <<deployed, connected, container, debounce, activationEvents, activations,
                   handlers, interceptions>>

\* $init answers: obtainManager returns the manager and the loop goes on.
InitAnswered(i) ==
    /\ loadQueue[i].pc = "obtain_init"
    /\ IF Disposed(loadQueue[i].td)
       THEN Commit(Settle(World, i)) /\ done' = "disconnected"
       ELSE LET h == loadQueue[i].byHost[loadQueue[i].k].host
                k == loadQueue[i].k
                w0 == [World EXCEPT !.rpc[h].initDone = TRUE]
                w == HostLoop(IssueStart(w0, i, k, activationEvents), i, k + 1, activationEvents)
            IN  Commit(Finish(w, i)) /\ done' = Outcome(w, i)
    /\ fired' = 0 /\ returned' = {}
    /\ UNCHANGED <<deployed, connected, container, debounce, activationEvents, activations,
                   handlers, interceptions>>

\* for (const contributions of hostContributions) after $start has answered.
RECURSIVE MarkStarted(_, _, _, _)
MarkStarted(entries, h, i, w) ==
    IF entries = <<>> THEN w
    ELSE LET id == Head(entries)
             e == Get(w.c, id)
             u == [w EXCEPT !.c = Put(@, [e EXCEPT !.state = STARTED,
                                                   !.disp = Append(@, Disp("stop", id, h))]),
                            !.q[i].td = Append(@, Disp("detach", id, h))]
         IN  MarkStarted(Tail(entries), h, i, IF id \in Keys(w.c) THEN u ELSE w)

\* The rest of the task of one host, and of startPlugins when it was the last one.
Started(w, i, t) ==
    LET w0 == [w EXCEPT !.rpc[t.host].activated = @ \cup t.events,
                        !.q[i].tasks = @ \ {t}]
        w1 == IF Disposed(w.q[i].td) THEN w0 ELSE MarkStarted(t.entries, t.host, i, w0)
        last == w1.q[i].tasks = {}
    IN  IF last /\ w1.q[i].pc = "join" THEN [w1 EXCEPT !.q[i].pc = "return"]
        ELSE IF last /\ w1.q[i].pc = "settled" THEN Settle(w1, i)
        ELSE w1

\* $start answers, and the loop over hostContributions marks the entries and calls
\* activateByWorkspaceContains for each of them, tracked or not. The run of the
\* first one is followed when no run has been followed before; its search may
\* answer at any time or never, since no step of it is ever forced.
StartAnswered(i) ==
    /\ \E t \in loadQueue[i].tasks :
          LET w == Started(World, i, t)
              f == Finish(w, i)
              first == t.array[1].model
          IN  /\ CommitHosted(f) /\ done' = Outcome(w, i)
              /\ IF ~Disposed(loadQueue[i].td) /\ probe.pc = "none"
                 THEN probe' = Launch(first.id, first.activationEvents, FALSE)
                 ELSE probe' = probe
    /\ fired' = 0 /\ returned' = {}
    /\ UNCHANGED <<deployed, connected, container, debounce, activationEvents, activations,
                   handlers, interceptions, deployer, treeView>>
    /\ wrapper' = Idle(wrapper)

\* getExtPluginAPI or getAllStorageValues rejects: obtainManager throws, and so do
\* startPlugins and doLoad, since the loop awaits obtainManager outside any try
\* block. The tasks of the hosts before this one go on without being awaited.
ExtPluginApiFailed(i) ==
    /\ loadQueue[i].pc = "obtain_api"
    /\ Commit(Settle(World, i))
    /\ done' = "failed"
    /\ fired' = 0 /\ returned' = {}
    /\ UNCHANGED <<deployed, connected, container, debounce, activationEvents, activations,
                   handlers, interceptions>>

\* $init rejects: as above, with the manager left in this.managers.
InitFailed(i) ==
    /\ loadQueue[i].pc = "obtain_init"
    /\ Commit(Settle(World, i))
    /\ done' = "failed"
    /\ fired' = 0 /\ returned' = {}
    /\ UNCHANGED <<deployed, connected, container, debounce, activationEvents, activations,
                   handlers, interceptions>>

\* The catch block of the task of one host, and the rest of startPlugins when it
\* was the last task.
StartRejected(w, i, t) ==
    LET w1 == [w EXCEPT !.q[i].tasks = @ \ {t}]
        last == w1.q[i].tasks = {}
    IN  IF last /\ w1.q[i].pc = "join" THEN [w1 EXCEPT !.q[i].pc = "return"]
        ELSE IF last /\ w1.q[i].pc = "settled" THEN Settle(w1, i)
        ELSE w1

\* $start rejects.
StartFailed(i) ==
    /\ \E t \in loadQueue[i].tasks :
          LET w == StartRejected(World, i, t)
          IN  Commit(Finish(w, i)) /\ done' = Outcome(w, i)
    /\ fired' = 0 /\ returned' = {}
    /\ UNCHANGED <<deployed, connected, container, debounce, activationEvents, activations,
                   handlers, interceptions>>

\* ------------------------------------------------------------------ disconnect

\* Every toDisconnect listens to onDidCloseConnection: the collections of the
\* passes that have returned first, then those of the chain, oldest first.
RECURSIVE DisconnectFrom(_, _)
DisconnectFrom(w, j) ==
    IF j > Len(w.q) THEN w
    ELSE DisconnectFrom([DisposeToDisconnect(w.q[j].td, w) EXCEPT !.q[j].td = <<>>], j + 1)

\* The channel of the manager a run was given is disposed: an awaited
\* activatePlugin() is rejected with it, and activateByWorkspaceContains ends.
Cut(b, torn) ==
    IF b.pc \in {"probing", "activating"} /\ HostKey(b.id) \in torn
    THEN [b EXCEPT !.disposed = TRUE, !.pc = IF @ = "activating" THEN "returned" ELSE @]
    ELSE b

\* await Promise.all(promises) in the wrappers: promises of these events are rejected.
Rejected(x, events) ==
    {IF c.waiting \cap events # {} THEN [c EXCEPT !.pc = "rejected", !.waiting = {}] ELSE c :
        c \in Idle(x)}

\* await Promise.all(promises) in the wrappers: the promise of one event is resolved.
Resolved(x, e) ==
    {IF e \in c.waiting
     THEN [c EXCEPT !.pc = IF c.waiting = {e} THEN "returned" ELSE "waiting", !.waiting = @ \ {e}]
     ELSE c : c \in Idle(x)}

\* The places at which a pass awaits a reply on a channel: $init in
\* obtainManager, the $start tasks in Promise.all, and the tasks of a pass that
\* has returned before them.
OnChannel == {"obtain_init", "join", "settled"}

\* RPCProtocolImpl.dispose rejects the pending replies of its channel: the start
\* tasks end in their catch block, so a pass that awaits them in Promise.all
\* finds toDisconnect disposed and returns, and a pass that had returned before
\* its tasks has nothing left to do. The $init call is awaited outside any try
\* block: obtainManager, startPlugins and doLoad throw, and load logs the error.
Disconnect(w) ==
    LET w1 == [DisposeToDisconnect(w.r, w) EXCEPT !.r = <<>>]
        w2 == DisconnectFrom(w1, 1)
        w3 == [w2 EXCEPT !.q = [j \in DOMAIN @ |-> [@[j] EXCEPT !.tasks = {}]]]
    IN  [w3 EXCEPT !.q = SelectSeq(@, LAMBDA p : p.pc \notin OnChannel)]

\* server.onDidCloseConnection
CloseConnection ==
    /\ container /\ connected
    /\ connected' = FALSE
    /\ LET w == Disconnect(World)
           torn == {h \in Hosts : rpc[h].transport /\ ~w.rpc[h].transport}
           rejected == {a \in activations : a.waiting \cap torn # {}}
       IN  /\ CommitHosted(w)
           /\ activations' = activations \ rejected
           /\ wrapper' = Rejected(wrapper, {a.event : a \in rejected})
           /\ probe' = Cut(probe, torn)
           /\ interceptions' = {x \in interceptions :
                                   x.activated \/ CommandEvent(x.cmd) \notin {a.event : a \in rejected}}
    /\ handlers' = {}
    /\ done' = IF \E j \in DOMAIN loadQueue : loadQueue[j].pc = "obtain_init" THEN "failed"
               ELSE IF \E j \in DOMAIN loadQueue : loadQueue[j].pc = "join" THEN "disconnected"
               ELSE "none"
    /\ fired' = 0 /\ returned' = {}
    /\ UNCHANGED <<deployed, container, debounce, activationEvents, deployer, treeView>>

\* ------------------------------------------------------------------ activation

\* Mutant of Activate: the test for an event that was fired before is missing.
ActivateUnchecked(e) ==
    [events |-> activationEvents \cup {e},
     rpc |-> [h \in Hosts |-> IF h \in managers
                              THEN [rpc[h] EXCEPT !.notified[e] = @ + 1]
                              ELSE rpc[h]],
     calls |-> IF managers = {} THEN activations
               ELSE activations \cup {[event |-> e, waiting |-> managers, live |-> managers]},
     ret |-> IF managers = {} THEN {[event |-> e, fresh |-> TRUE, live |-> {}]} ELSE {}]

\* Mutant of Activate: the new event replaces the set instead of joining it.
ActivateReplacing(e) ==
    IF e \in activationEvents
    THEN [events |-> activationEvents, rpc |-> rpc, calls |-> activations,
          ret |-> {[event |-> e, fresh |-> FALSE, live |-> managers]}]
    ELSE [events |-> {e},
          rpc |-> [h \in Hosts |-> IF h \in managers
                                   THEN [rpc[h] EXCEPT !.notified[e] = @ + 1]
                                   ELSE rpc[h]],
          calls |-> IF managers = {} THEN activations
                    ELSE activations \cup {[event |-> e, waiting |-> managers, live |-> managers]},
          ret |-> IF managers = {} THEN {[event |-> e, fresh |-> TRUE, live |-> {}]} ELSE {}]

\* activateByEvent(activationEvent) up to its await. ret holds the call when it
\* returns without waiting: fresh tells whether the call added the event, live
\* which managers there were when it was made.
Activate(e) ==
    IF e \in activationEvents
    THEN [events |-> activationEvents, rpc |-> rpc, calls |-> activations,
          ret |-> {[event |-> e, fresh |-> FALSE, live |-> managers]}]
    ELSE [events |-> activationEvents \cup {e},
          rpc |-> [h \in Hosts |-> IF h \in managers
                                   THEN [rpc[h] EXCEPT !.notified[e] = @ + 1]
                                   ELSE rpc[h]],
          calls |-> IF managers = {} THEN activations
                    ELSE activations \cup {[event |-> e, waiting |-> managers, live |-> managers]},
          ret |-> IF managers = {} THEN {[event |-> e, fresh |-> TRUE, live |-> {}]} ELSE {}]

\* Promise.all([activation, waitForCommandHandler.promise]) is still pending.
Waiting(x) == ~(x.activated /\ x.handler)

\* activateByEvent, activateByView, activateByLanguage called from outside.
ActivateByEvent ==
    /\ \E e \in DirectEvents :
          LET r == Activate(e)
          IN  /\ activationEvents' = r.events
              /\ rpc' = r.rpc
              /\ activations' = r.calls
              /\ returned' = r.ret
    /\ fired' = 0 /\ done' = "none" /\ stopped' = <<>>
    /\ UNCHANGED <<deployer, probe, treeView>> /\ wrapper' = Idle(wrapper)
    /\ UNCHANGED <<deployed, connected, container, debounce, loadQueue, contributions, retired,
                   managers, handlers, interceptions, registered>>

\* manager.$activateByEvent answers; the call returns with the last answer.
ActivateAnswered ==
    /\ \E a \in activations : \E h \in a.waiting :
          LET b == [a EXCEPT !.waiting = @ \ {h}]
              over == b.waiting = {}
              told == {[x EXCEPT !.activated = @ \/ (over /\ CommandEvent(x.cmd) = a.event)] :
                          x \in interceptions}
          IN  /\ rpc' = [rpc EXCEPT ![h].activated = @ \cup {a.event}]
              /\ activations' = (activations \ {a}) \cup (IF over THEN {} ELSE {b})
              /\ returned' = IF over THEN {[event |-> a.event, fresh |-> TRUE, live |-> a.live]} ELSE {}
              /\ interceptions' = {x \in told : Waiting(x)}
              /\ wrapper' = IF over THEN Resolved(wrapper, a.event) ELSE Idle(wrapper)
    /\ fired' = 0 /\ done' = "none" /\ stopped' = <<>>
    /\ UNCHANGED <<deployer, probe, treeView>>
    /\ UNCHANGED <<deployed, connected, container, debounce, loadQueue, contributions, retired,
                   managers, activationEvents, handlers, registered>>

\* The plugin that declares the command.
CommandOwner(c) == "p1"

\* contributionHandler.hasCommand: a loaded plugin contributes the command.
HasCommand(c) == registered[CommandOwner(c)] > 0

\* commands.getCommand(c) is defined: the answers the registry can give. The
\* registry is not that of contributionHandler, and neither answer follows from
\* what hasCommand says.
GetCommand(c) == BOOLEAN

\* contributionHandler.hasCommandHandler
HasCommandHandler(c) == c \in handlers

\* ensureCommandHandlerRegistration(event), called on onWillExecuteCommand.
WillExecuteCommand ==
    /\ \E c \in Commands : \E known \in GetCommand(c) :
          LET r == Activate(CommandEvent(c))
              x == [cmd |-> c, activated |-> r.ret # {}, handler |-> FALSE]
          IN  /\ activationEvents' = r.events
              /\ rpc' = r.rpc
              /\ activations' = r.calls
              /\ returned' = r.ret
              /\ interceptions' =
                    IF known /\ (~HasCommand(c) \/ HasCommandHandler(c))
                    THEN interceptions
                    ELSE interceptions \cup {x}
    /\ fired' = 0 /\ done' = "none" /\ stopped' = <<>>
    /\ UNCHANGED <<deployer, probe, treeView>> /\ wrapper' = Idle(wrapper)
    /\ UNCHANGED <<deployed, connected, container, debounce, loadQueue, contributions, retired,
                   managers, handlers, registered>>

\* The started plugin registers its handler: onDidRegisterCommandHandler fires.
RegisterCommandHandler ==
    /\ \E c \in Commands \ handlers :
          /\ CommandOwner(c) \in Keys(contributions)
          /\ Get(contributions, CommandOwner(c)).state = STARTED
          /\ handlers' = handlers \cup {c}
          /\ interceptions' = {y \in {[x EXCEPT !.handler = @ \/ x.cmd = c] : x \in interceptions} :
                                  Waiting(y)}
    /\ Quiet
    /\ UNCHANGED <<deployed, connected, container, debounce, loadQueue, contributions, retired,
                   managers, rpc, activationEvents, activations, registered>>

\* ------------------------------------------------------------------ activation wrappers

\* A string argument was given and is not empty: if (activationEvent), if (debugType).
Truthy(x) == x # <<>> /\ x[1] # ""

\* Mutant of DebugEvents: 'onDebug' is left out when an activation event is given.
DebugEventsWithoutBase(activationEvent, debugType) ==
    IF Truthy(activationEvent)
    THEN <<activationEvent[1]>> \o
             (IF Truthy(debugType) THEN <<TypedEvent(activationEvent[1], debugType[1])>> ELSE <<>>)
    ELSE <<"onDebug">>

\* activateByDebug: the events handed to activateByEvent, in the order of the pushes.
DebugEvents(activationEvent, debugType) ==
    <<"onDebug">> \o
        (IF Truthy(activationEvent)
         THEN <<activationEvent[1]>> \o
                  (IF Truthy(debugType)
                   THEN <<TypedEvent(activationEvent[1], debugType[1])>>
                   ELSE <<>>)
         ELSE <<>>)

\* One activateByEvent call run up to its await on the state s, which carries the
\* event set, the channels, the pending calls, the calls that have returned and
\* the events whose promise the caller holds unresolved.
ActivateFrom(s, e) ==
    IF e \in s.events
    THEN [s EXCEPT !.ret = @ \cup {[event |-> e, fresh |-> FALSE, live |-> managers]}]
    ELSE [events |-> s.events \cup {e},
          rpc |-> [h \in Hosts |-> IF h \in managers
                                   THEN [s.rpc[h] EXCEPT !.notified[e] = @ + 1]
                                   ELSE s.rpc[h]],
          calls |-> IF managers = {} THEN s.calls
                    ELSE s.calls \cup {[event |-> e, waiting |-> managers, live |-> managers]},
          ret |-> IF managers = {} THEN s.ret \cup {[event |-> e, fresh |-> TRUE, live |-> {}]}
                  ELSE s.ret,
          waiting |-> IF managers = {} THEN s.waiting ELSE s.waiting \cup {e}]

\* The activateByEvent calls of a wrapper, made one after the other before its await.
RECURSIVE ActivateAll(_, _)
ActivateAll(s, events) ==
    IF events = <<>> THEN s
    ELSE ActivateAll(ActivateFrom(s, Head(events)), Tail(events))

\* The number of wrapper calls followed while they are in their await.
MaxCalls == 1

\* The number of events followed in this.activationEvents by the calls of wrappers.
MaxEvents == 3

\* A wrapper is called: it makes its activateByEvent calls and awaits them.
Call(name, args, events) ==
    /\ Cardinality(Idle(wrapper)) < MaxCalls
    /\ LET s == ActivateAll([events |-> activationEvents, rpc |-> rpc, calls |-> activations,
                             ret |-> {}, waiting |-> {}], events)
       IN  /\ Cardinality(s.events) <= MaxEvents
           /\ activationEvents' = s.events
           /\ rpc' = s.rpc
           /\ activations' = s.calls
           /\ returned' = s.ret
           /\ wrapper' = Idle(wrapper) \cup
                             {[pc |-> IF s.waiting = {} THEN "returned" ELSE "waiting",
                               name |-> name, args |-> args, fired |-> events,
                               added |-> s.waiting, waiting |-> s.waiting]}
    /\ fired' = 0 /\ done' = "none" /\ stopped' = <<>>
    /\ UNCHANGED <<deployer, probe, treeView>>
    /\ UNCHANGED <<deployed, connected, container, debounce, loadQueue, contributions, retired,
                   managers, handlers, interceptions, registered>>

\* activateByView(viewId)
ActivateByView == \E v \in Views : Call("activateByView", <<v>>, <<ViewEvent(v)>>)

\* activateByLanguage(languageId)
ActivateByLanguage == \E l \in Languages : Call("activateByLanguage", <<l>>, <<LanguageEvent(l)>>)

\* activateByCommand(commandId)
ActivateByCommand == \E c \in Commands : Call("activateByCommand", <<c>>, <<CommandEvent(c)>>)

\* activateByDebug(activationEvent?, debugType?)
ActivateByDebug ==
    \E a \in Optional(DebugActivationEvents) : \E t \in Optional(DebugTypes) :
        Call("activateByDebug", <<a, t>>, DebugEvents(a, t))

\* ------------------------------------------------------------------ tree view selection

\* Tree item ids and the longest list handed to setSelection.
Items == {"a", "b", "c", "d"}
MaxIds == 3

\* The arguments of setSelection.
IdLists == UNION {[1..n -> Items] : n \in 0..MaxIds}

\* new Set(array): the elements in the order of their first occurrence.
RECURSIVE NewSet(_)
NewSet(list) ==
    IF list = <<>> THEN <<>>
    ELSE LET front == NewSet(SubSeq(list, 1, Len(list) - 1))
             last == list[Len(list)]
         IN  IF last \in Range(front) THEN front ELSE Append(front, last)

\* The loop of setSelection from its k-th iteration on, and the test after it:
\* TRUE when doSetSelection is called. The loop runs over this.selectedItemIds.
RECURSIVE SetSelectionLoop(_, _, _)
SetSelectionLoop(selected, toDelete, k) ==
    IF k > Len(selected) THEN toDelete # {}
    ELSE IF selected[k] \notin Range(selected) THEN TRUE
    ELSE SetSelectionLoop(selected, toDelete \ {selected[k]}, k + 1)

\* doSetSelection(selectedItemIds)
DoSetSelection(t, ids) == [t EXCEPT !.selectedItemIds = NewSet(ids), !.changed = 1]

\* $setSelection(treeViewId, treeItemIds) on the registered tree view.
SetSelection ==
    /\ \E ids \in IdLists :
          LET t == [treeView EXCEPT !.ids = ids, !.changed = 0]
          IN  treeView' = IF SetSelectionLoop(t.selectedItemIds, Range(t.selectedItemIds), 1)
                          THEN DoSetSelection(t, ids)
                          ELSE t
    /\ UNCHANGED <<hosted, deployer, probe>> /\ wrapper' = Idle(wrapper)

\* $setVisible(treeViewId, isVisible)
SetVisible ==
    /\ \E visible \in BOOLEAN :
          treeView' = [treeView EXCEPT !.visible = visible, !.changed = 0]
    /\ UNCHANGED <<hosted, deployer, probe>> /\ wrapper' = Idle(wrapper)

\* ------------------------------------------------------------------ deployment registry

\* HostedPluginDeployerHandler keeps one registry and one readiness gate per target.
Targets == {"frontend", "backend"}

\* Deploy calls made to the handler, over both targets.
MaxDeploys == 2

\* getDeployed...Metadata calls of one target that can wait at the same time.
MaxPending == 1

\* Batches of plugin paths handed to a deploy call. a1 and a2 hold two versions
\* of the plugin 'a', b holds the plugin 'b', the manifest of bad cannot be
\* loaded, none has no manifest, and one entry has no path.
Batches == {<<>>, <<"a1", "b">>, <<"a2">>, <<"bad", "b">>, <<"none", "a2">>, <<"", "b">>}

NoMetadata == [id |-> "", path |-> ""]

\* What an awaited call ends with.
Value(v) == [thrown |-> FALSE, value |-> v]
Thrown == [thrown |-> TRUE, value |-> NoMetadata]

\* loadPluginMetadata: loadManifest throws, finds no manifest, or the scanner
\* builds the metadata of the manifest found under the path.
LoadPluginMetadata(pluginPath) ==
    CASE pluginPath = "bad/" -> Thrown
      [] pluginPath = "none/" -> Value(NoMetadata)
      [] pluginPath \in {"a1/", "a2/"} -> Value([id |-> "a", path |-> pluginPath])
      [] OTHER -> Value([id |-> "b", path |-> pluginPath])

\* Mutant of DoGetPluginMetadata: no try block around the load.
DoGetPluginMetadataUncaught(pluginPath) ==
    IF pluginPath = "" THEN Value(NoMetadata) ELSE LoadPluginMetadata(pluginPath \o "/")

\* doGetPluginMetadata
DoGetPluginMetadata(pluginPath) ==
    IF pluginPath = ""
    THEN Value(NoMetadata)
    ELSE LET loaded == LoadPluginMetadata(pluginPath \o "/")
         IN  IF loaded.thrown THEN Value(NoMetadata) ELSE loaded

\* getPluginMetadata
GetPluginMetadata(pluginPath) == DoGetPluginMetadata(pluginPath)

\* new HostedPluginDeployerHandler(), and no call made yet.
NewDeployer ==
    [metadata |-> [t \in Targets |-> <<>>],     \* current...PluginsMetadata
     gate |-> [t \in Targets |-> FALSE],        \* ...PluginsMetadataDeferred is resolved
     log |-> <<>>,                              \* logger.info: <<target, id>>
     calls |-> <<>>,                            \* deploy calls in their loop
     made |-> 0,                                \* deploy calls made
     completed |-> [t \in Targets |-> 0],       \* deploy calls that ran to their end
     waiting |-> [t \in Targets |-> 0],         \* getDeployed...Metadata calls at their await
     ended |-> <<>>,                            \* the deploy call that ended in the last step
     answer |-> <<>>]                           \* what a getDeployed...Metadata call returned in the last step

\* Mutant of Register: no has() check before the set.
RegisterAlways(d, target, metadata) ==
    IF metadata = NoMetadata THEN d
    ELSE [d EXCEPT !.metadata[target] = Put(@, metadata),
                   !.log = Append(@, <<target, metadata.id>>)]

\* The body of the loop of a deploy call, once the metadata is there.
Register(d, target, metadata) ==
    IF metadata = NoMetadata \/ metadata.id \in Keys(d.metadata[target]) THEN d
    ELSE [d EXCEPT !.metadata[target] = Put(@, metadata),
                   !.log = Append(@, <<target, metadata.id>>)]

\* The loop has ended: resolve on first deploy, and the call returns.
Resolve(d, call) ==
    [d EXCEPT !.gate[call.target] = TRUE,
              !.completed[call.target] = @ + 1,
              !.ended = <<[target |-> call.target, plugins |-> call.plugins, rejected |-> FALSE]>>]

Without(s, j) == SubSeq(s, 1, j - 1) \o SubSeq(s, j + 1, Len(s))

Calm(d) == [d EXCEPT !.ended = <<>>, !.answer = <<>>]

\* Mutant of DeployPlugins: the gate is resolved when the call is made.
DeployPluginsResolveFirst(target, plugins) ==
    /\ deployer.made < MaxDeploys
    /\ LET call == [target |-> target, plugins |-> plugins, k |-> 1]
           d == [Calm(deployer) EXCEPT !.made = @ + 1, !.gate[target] = TRUE]
       IN  deployer' = IF plugins = <<>> THEN Resolve(d, call)
                       ELSE [d EXCEPT !.calls = Append(@, call)]
    /\ UNCHANGED <<hosted, probe, treeView>> /\ wrapper' = Idle(wrapper)

\* A deploy call up to its first await; with nothing to deploy it runs to its end.
DeployPlugins(target, plugins) ==
    /\ deployer.made < MaxDeploys
    /\ LET call == [target |-> target, plugins |-> plugins, k |-> 1]
           d == [Calm(deployer) EXCEPT !.made = @ + 1]
       IN  deployer' = IF plugins = <<>> THEN Resolve(d, call)
                       ELSE [d EXCEPT !.calls = Append(@, call)]
    /\ UNCHANGED <<hosted, probe, treeView>> /\ wrapper' = Idle(wrapper)

DeployFrontendPlugins == \E plugins \in Batches : DeployPlugins("frontend", plugins)

DeployBackendPlugins == \E plugins \in Batches : DeployPlugins("backend", plugins)

\* The metadata awaited by a deploy call is there: the call registers it and goes
\* on to the next plugin or to its end. A rejected await ends the call.
MetadataLoaded ==
    /\ \E j \in DOMAIN deployer.calls :
          LET call == deployer.calls[j]
              loaded == GetPluginMetadata(call.plugins[call.k])
              d == Calm(deployer)
          IN  deployer' =
                IF loaded.thrown
                THEN [d EXCEPT !.calls = Without(@, j),
                               !.ended = <<[target |-> call.target, plugins |-> call.plugins,
                                            rejected |-> TRUE]>>]
                ELSE LET r == Register(d, call.target, loaded.value)
                     IN  IF call.k = Len(call.plugins)
                         THEN Resolve([r EXCEPT !.calls = Without(@, j)], call)
                         ELSE [r EXCEPT !.calls[j].k = @ + 1]
    /\ UNCHANGED <<hosted, probe, treeView>> /\ wrapper' = Idle(wrapper)

\* getDeployedFrontendMetadata / getDeployedBackendMetadata up to the await.
GetDeployedMetadata(target) ==
    /\ deployer.waiting[target] < MaxPending
    /\ deployer' = [Calm(deployer) EXCEPT !.waiting[target] = @ + 1]
    /\ UNCHANGED <<hosted, probe, treeView>> /\ wrapper' = Idle(wrapper)

GetDeployedFrontendMetadata == GetDeployedMetadata("frontend")

GetDeployedBackendMetadata == GetDeployedMetadata("backend")

\* The gate is resolved: the call returns the values of the registry.
MetadataReturned(target) ==
    /\ deployer.waiting[target] > 0
    /\ deployer.gate[target]
    /\ deployer' = [Calm(deployer) EXCEPT
                       !.waiting[target] = @ - 1,
                       !.answer = <<[target |-> target, value |-> deployer.metadata[target]]>>]
    /\ UNCHANGED <<hosted, probe, treeView>> /\ wrapper' = Idle(wrapper)

FrontendMetadataReturned == MetadataReturned("frontend")

BackendMetadataReturned == MetadataReturned("backend")

\* ------------------------------------------------------------------ workspaceContains

\* activatePlugin()
ActivatePlugin(b) == [b EXCEPT !.sent = Append(@, InstallEvent(b.id))]

\* All promises have settled: Promise.all(promises).then(exists => exists.some(v => v))
Joined(b) == b.contains # "pending" /\ b.find # "pending"

\* The line after the await of Promise.all, run once the last promise has settled.
\* A call on a disposed channel is rejected at once, and the run ends with it.
Join(b) ==
    IF ~Joined(b) THEN b
    ELSE IF b.contains = "true" \/ b.find = "true"
         THEN [ActivatePlugin(b) EXCEPT !.pc = IF b.disposed THEN "returned" ELSE "activating"]
         ELSE [b EXCEPT !.pc = "returned"]

\* Mutant of Dispatched: activatePlugin goes through this.activateByEvent, which
\* adds the event to the set.
DispatchedByEvent(events, sent) == events \cup Range(sent)

\* this.activationEvents after activatePlugin has sent what is in sent: the call
\* goes to the manager the run was given, not through activateByEvent.
Dispatched(events, sent) == events

\* What a step of the run leaves of the state of HostedPluginSupport.
ProbeFrame ==
    /\ activationEvents' = Dispatched(activationEvents, probe'.sent)
    /\ fired' = 0 /\ done' = "none" /\ returned' = {} /\ stopped' = <<>>
    /\ UNCHANGED <<deployed, connected, container, debounce, loadQueue, contributions, retired,
                   managers, rpc, activations, handlers, interceptions, registered, deployer,
                   treeView>>
    /\ wrapper' = Idle(wrapper)

\* The plugin is tracked and STARTED, and its host has a manager.
Live(id) ==
    /\ id \in Keys(contributions)
    /\ Get(contributions, id).state = STARTED
    /\ HostKey(id) \in managers

\* The run after a step, with a note of an install event sent for a plugin that
\* is not live.
Seen(b) == [b EXCEPT !.late = @ \/ (Len(b.sent) > Len(probe.sent) /\ ~Live(b.id))]

\* activateByWorkspaceContains(manager, plugin) up to its await.
ActivateByWorkspaceContains ==
    /\ probe.pc = "none"
    /\ \E id \in PluginIds, events \in ActivationEventLists, endless \in BOOLEAN :
          probe' = Launch(id, events, endless)
    /\ ProbeFrame

\* workspaceService.containsSome(paths) answers.
ContainsSomeAnswered ==
    /\ probe.pc = "probing" /\ probe.contains = "pending"
    /\ \E exists \in {"true", "false"} : probe' = Seen(Join([probe EXCEPT !.contains = exists]))
    /\ ProbeFrame

\* Mutant of ClearTimeout: the timer is left armed.
ClearTimeoutKeep(b) == b

\* clearTimeout(searchTimeout)
ClearTimeout(b) == [b EXCEPT !.timer = IF @ = "armed" THEN "cleared" ELSE @]

\* A search that does not answer of itself ends only once it is cancelled.
Answers == probe.pc = "probing" /\ probe.find = "pending" /\ (probe.endless => probe.cancelled)

\* fileSearchService.find answers: result.length > 0, then the finally block.
FindAnswered ==
    /\ Answers
    /\ \E result \in {"true", "false"} :
          probe' = Seen(Join(ClearTimeout([probe EXCEPT !.find = result])))
    /\ ProbeFrame

\* fileSearchService.find rejects: with a cancellation once the token is cancelled,
\* or with another error, which is logged.
FindFailed ==
    /\ Answers
    /\ \E isCancelled \in {c \in BOOLEAN : c => probe.cancelled} :
          probe' = Seen(Join(ClearTimeout([probe EXCEPT !.find = "false",
                                                        !.logged = @ \/ ~isCancelled])))
    /\ ProbeFrame

\* Mutant of Expire: the search is cancelled and nothing is sent.
ExpireSilently(b) == [b EXCEPT !.timer = "fired", !.cancelled = TRUE]

\* The callback of searchTimeout.
Expire(b) == ActivatePlugin([b EXCEPT !.timer = "fired", !.cancelled = TRUE])

\* The 7000 ms of searchTimeout have passed.
SearchTimeout ==
    /\ probe.timer = "armed"
    /\ probe' = Seen(Expire(probe))
    /\ ProbeFrame

\* The awaited activatePlugin() has answered: activateByWorkspaceContains returns.
InstallAnswered ==
    /\ probe.pc = "activating"
    /\ probe' = [probe EXCEPT !.pc = "returned"]
    /\ ProbeFrame

\* ------------------------------------------------------------------ specifications

\* The state after construction, before onStart, for a given deployment: init()
\* has called activateByLanguage for the languages that were activated before,
\* and there is no manager yet to notify.
Start(snapshots) ==
    /\ deployed \in snapshots
    /\ connected = TRUE
    /\ container = FALSE
    /\ debounce = [timer |-> FALSE, lastArgs |-> FALSE]
    /\ loadQueue = <<>>
    /\ contributions = <<>>
    /\ retired = <<>>
    /\ managers = {}
    /\ rpc = [h \in Hosts |-> NoChannel]
    /\ activationEvents \in {{LanguageEvent(l) : l \in ls} : ls \in ActivatedLanguages}
    /\ activations = {}
    /\ handlers = {}
    /\ interceptions = {}
    /\ registered = [p \in PluginIds |-> 0]
    /\ stopped = <<>>
    /\ fired = 0
    /\ done = "none"
    /\ returned = {}
    /\ deployer = NewDeployer
    /\ probe = NoProbe
    /\ wrapper = NoWrapper
    /\ treeView = NewTreeView

\* No language was activated before the support is constructed.
Init == Start(Snapshots) /\ activationEvents = {}

\* A frontend and a backend plugin are deployed and stay deployed.
InitAct == Start({<<"p1", "p3">>})

Next ==
    \/ OnStart
    \/ DidDeploy
    \/ OpenConnection
    \/ CloseConnection
    \/ DebounceTimeout
    \/ \E i \in DOMAIN loadQueue : DoLoad(i)
    \/ \E i \in DOMAIN loadQueue : DeployedPluginIds(i)
    \/ \E i \in DOMAIN loadQueue : DeployedPlugins(i)
    \/ \E i \in DOMAIN loadQueue : LayoutInitialized(i)
    \/ \E i \in DOMAIN loadQueue : Ready(i)
    \/ \E i \in DOMAIN loadQueue : ExtPluginApi(i)
    \/ \E i \in DOMAIN loadQueue : InitAnswered(i)
    \/ \E i \in DOMAIN loadQueue : StartAnswered(i)

Spec == Init /\ [][Next]_vars

NextErr ==
    \/ Next
    \/ \E i \in DOMAIN loadQueue : DeployedPluginIdsFailed(i)

SpecErr == Init /\ [][NextErr]_vars

NextAct ==
    \/ OnStart
    \/ OpenConnection
    \/ CloseConnection
    \/ DebounceTimeout
    \/ \E i \in DOMAIN loadQueue : DoLoad(i)
    \/ \E i \in DOMAIN loadQueue : DeployedPluginIds(i)
    \/ \E i \in DOMAIN loadQueue : DeployedPlugins(i)
    \/ \E i \in DOMAIN loadQueue : LayoutInitialized(i)
    \/ \E i \in DOMAIN loadQueue : Ready(i)
    \/ \E i \in DOMAIN loadQueue : ExtPluginApi(i)
    \/ \E i \in DOMAIN loadQueue : InitAnswered(i)
    \/ \E i \in DOMAIN loadQueue : StartAnswered(i)
    \/ ActivateByEvent
    \/ ActivateAnswered

SpecAct == InitAct /\ [][NextAct]_vars

\* The same deployment with the interception of commands in place of the direct
\* calls of activateByEvent.
NextCmd ==
    \/ OnStart
    \/ OpenConnection
    \/ CloseConnection
    \/ DebounceTimeout
    \/ \E i \in DOMAIN loadQueue : DoLoad(i)
    \/ \E i \in DOMAIN loadQueue : DeployedPluginIds(i)
    \/ \E i \in DOMAIN loadQueue : DeployedPlugins(i)
    \/ \E i \in DOMAIN loadQueue : LayoutInitialized(i)
    \/ \E i \in DOMAIN loadQueue : Ready(i)
    \/ \E i \in DOMAIN loadQueue : ExtPluginApi(i)
    \/ \E i \in DOMAIN loadQueue : InitAnswered(i)
    \/ \E i \in DOMAIN loadQueue : StartAnswered(i)
    \/ ActivateAnswered
    \/ WillExecuteCommand
    \/ RegisterCommandHandler

SpecCmd == InitAct /\ [][NextCmd]_vars

\* Deployments in which every plugin is enqueued for its own host: a frontend
\* plugin alone, and a frontend plugin reported before a backend plugin.
SnapshotsFail == {<<"p1">>, <<"p1", "p3">>}

InitFail == Start(SnapshotsFail) /\ activationEvents = {}

DidDeployFail == Deploy(SnapshotsFail)

\* The requests of a pass may be rejected and handleContributions may throw.
NextFail ==
    \/ OnStart
    \/ DidDeployFail
    \/ OpenConnection
    \/ CloseConnection
    \/ DebounceTimeout
    \/ \E i \in DOMAIN loadQueue : DoLoad(i)
    \/ \E i \in DOMAIN loadQueue : DeployedPluginIds(i)
    \/ \E i \in DOMAIN loadQueue : DeployedPlugins(i)
    \/ \E i \in DOMAIN loadQueue : LayoutInitialized(i)
    \/ \E i \in DOMAIN loadQueue : Ready(i)
    \/ \E i \in DOMAIN loadQueue : ExtPluginApi(i)
    \/ \E i \in DOMAIN loadQueue : InitAnswered(i)
    \/ \E i \in DOMAIN loadQueue : StartAnswered(i)
    \/ \E i \in DOMAIN loadQueue : DeployedPluginIdsFailed(i)
    \/ \E i \in DOMAIN loadQueue : HandleContributionsFailed(i)
    \/ \E i \in DOMAIN loadQueue : ExtPluginApiFailed(i)
    \/ \E i \in DOMAIN loadQueue : InitFailed(i)
    \/ \E i \in DOMAIN loadQueue : StartFailed(i)

SpecFail == InitFail /\ [][NextFail]_vars

\* A callback chained with then() runs once the promise it hangs off has settled.
SpecFailFair == SpecFail /\ WF_vars(\E i \in DOMAIN loadQueue : DoLoad(i))

\* Only the start calls may be rejected.
NextStartFail ==
    \/ OnStart
    \/ DidDeployFail
    \/ OpenConnection
    \/ CloseConnection
    \/ DebounceTimeout
    \/ \E i \in DOMAIN loadQueue : DoLoad(i)
    \/ \E i \in DOMAIN loadQueue : DeployedPluginIds(i)
    \/ \E i \in DOMAIN loadQueue : DeployedPlugins(i)
    \/ \E i \in DOMAIN loadQueue : LayoutInitialized(i)
    \/ \E i \in DOMAIN loadQueue : Ready(i)
    \/ \E i \in DOMAIN loadQueue : ExtPluginApi(i)
    \/ \E i \in DOMAIN loadQueue : InitAnswered(i)
    \/ \E i \in DOMAIN loadQueue : StartAnswered(i)
    \/ \E i \in DOMAIN loadQueue : StartFailed(i)

SpecStartFail == InitFail /\ [][NextStartFail]_vars

\* The deployment registry on its own: deploy calls and readers of both targets.
InitDeploy == Start({<<>>})

NextDeploy ==
    \/ DeployFrontendPlugins
    \/ DeployBackendPlugins
    \/ MetadataLoaded
    \/ GetDeployedFrontendMetadata
    \/ GetDeployedBackendMetadata
    \/ FrontendMetadataReturned
    \/ BackendMetadataReturned

SpecDeploy == InitDeploy /\ [][NextDeploy]_vars

\* One run of activateByWorkspaceContains for a started plugin.
NextProbe ==
    \/ ActivateByWorkspaceContains
    \/ ContainsSomeAnswered
    \/ FindAnswered
    \/ FindFailed
    \/ SearchTimeout
    \/ InstallAnswered

SpecProbe == InitDeploy /\ [][NextProbe]_vars

\* A timer that stays armed fires.
SpecProbeFair == SpecProbe /\ WF_vars(SearchTimeout)

\* The plugin p1 is deployed, started, and can be undeployed or cut off while the
\* run of activateByWorkspaceContains made at its start is still going on.
SnapshotsLate == {<<>>, <<"p1">>}

InitLate == Start({<<"p1">>})

DidDeployLate == Deploy(SnapshotsLate)

NextLate ==
    \/ OnStart
    \/ DidDeployLate
    \/ OpenConnection
    \/ CloseConnection
    \/ DebounceTimeout
    \/ \E i \in DOMAIN loadQueue : DoLoad(i)
    \/ \E i \in DOMAIN loadQueue : DeployedPluginIds(i)
    \/ \E i \in DOMAIN loadQueue : DeployedPlugins(i)
    \/ \E i \in DOMAIN loadQueue : LayoutInitialized(i)
    \/ \E i \in DOMAIN loadQueue : Ready(i)
    \/ \E i \in DOMAIN loadQueue : ExtPluginApi(i)
    \/ \E i \in DOMAIN loadQueue : InitAnswered(i)
    \/ \E i \in DOMAIN loadQueue : StartAnswered(i)
    \/ ContainsSomeAnswered
    \/ FindAnswered
    \/ FindFailed
    \/ SearchTimeout
    \/ InstallAnswered

SpecLate == InitLate /\ [][NextLate]_vars

\* A continuation of a resolved promise runs.
SpecDeployFair ==
    SpecDeploy /\ WF_vars(FrontendMetadataReturned) /\ WF_vars(BackendMetadataReturned)

\* The wrappers around activateByEvent, with one backend plugin that is deployed
\* and undeployed.
SnapshotsWrap == {<<>>, <<"p3">>}

InitWrap == Start(SnapshotsWrap)

DidDeployWrap == Deploy(SnapshotsWrap)

NextWrap ==
    \/ OnStart
    \/ DidDeployWrap
    \/ OpenConnection
    \/ CloseConnection
    \/ DebounceTimeout
    \/ \E i \in DOMAIN loadQueue : DoLoad(i)
    \/ \E i \in DOMAIN loadQueue : DeployedPluginIds(i)
    \/ \E i \in DOMAIN loadQueue : DeployedPlugins(i)
    \/ \E i \in DOMAIN loadQueue : LayoutInitialized(i)
    \/ \E i \in DOMAIN loadQueue : Ready(i)
    \/ \E i \in DOMAIN loadQueue : ExtPluginApi(i)
    \/ \E i \in DOMAIN loadQueue : InitAnswered(i)
    \/ \E i \in DOMAIN loadQueue : StartAnswered(i)
    \/ ActivateAnswered
    \/ ActivateByView
    \/ ActivateByLanguage
    \/ ActivateByCommand
    \/ ActivateByDebug

SpecWrap == InitWrap /\ [][NextWrap]_vars

\* One tree view and the calls the main side makes on it.
InitTree == Start({<<>>})

NextTree ==
    \/ SetSelection
    \/ SetVisible

SpecTree == InitTree /\ [][NextTree]_vars

\* ------------------------------------------------------------------ properties

\* doLoad of the pass is in flight.
Running(p) == p.pc \notin {"scheduled", "settled"}

\* C1: at most one reconciliation pass (doLoad) is in flight at any time, and a
\* pass has begun only if every pass scheduled before it has finished, normally
\* or by throwing.
C1_OnePassInFlight ==
    /\ Cardinality({i \in DOMAIN loadQueue : Running(loadQueue[i])}) <= 1
    /\ \A i \in DOMAIN loadQueue :
          loadQueue[i].pc # "scheduled" => \A j \in 1..(i - 1) : loadQueue[j].pc = "settled"

\* A pass has just ended by throwing while the next pass was waiting behind it.
C1_Witness ==
    /\ done = "failed"
    /\ loadQueue # <<>>
    /\ loadQueue[1].pc = "scheduled"

\* The start calls that carry the entry and are in flight.
InFlight(id) ==
    {x \in UNION {{<<i, t>> : t \in loadQueue[i].tasks} : i \in DOMAIN loadQueue} :
        id \in Range(x[2].entries)}

\* The start calls that have set the entry to STARTED since it was created or last
\* set back to LOADED: each of them pushed one stop action.
StartedBy(e) == {j \in DOMAIN e.disp : e.disp[j].kind = "stop"}

\* C2: a tracked plugin is included in at most one start call and set to STARTED
\* at most once between its creation or latest downgrade to LOADED and its next
\* downgrade or removal.
C2_NoDoubleStart ==
    \A n \in DOMAIN contributions :
        Cardinality(InFlight(contributions[n].id)) + Cardinality(StartedBy(contributions[n])) <= 1

\* C3: once a pass completes with the connection open throughout and no call
\* failed, every entry in the tracker is STARTED.
C3_AllStarted ==
    done = "completed" => \A n \in DOMAIN contributions : contributions[n].state = STARTED

\* The step in which getDeployedPluginIds answers to pass i.
IdsStep(i) ==
    /\ i \in DOMAIN loadQueue /\ loadQueue[i].pc = "sync_ids"
    /\ i \in DOMAIN loadQueue' /\ loadQueue'[i].pc \in {"sync_plugins", "wait_layout"}

\* The step in which getDeployedPlugins answers to pass i.
PluginsStep(i) ==
    /\ i \in DOMAIN loadQueue /\ loadQueue[i].pc = "sync_plugins"
    /\ i \in DOMAIN loadQueue' /\ loadQueue'[i].pc = "wait_layout"

\* One step of the model compared with what syncPlugins has to do in it.
C4_Step ==
    \A i \in 1..MaxQueue :
        /\ IdsStep(i) =>
              /\ \A p \in Keys(contributions) \ Range(deployed) :
                    p \notin Keys(contributions') /\ registered'[p] = 0
              /\ \A p \in Keys(contributions) \cap Range(deployed) :
                    p \in Keys(contributions') /\ Get(contributions', p) = Get(contributions, p)
              /\ Keys(contributions') \subseteq Keys(contributions)
        /\ PluginsStep(i) =>
              /\ \A p \in Range(loadQueue[i].pluginIds) \cap Range(deployed) :
                    p \in Keys(contributions') /\ Get(contributions', p).state = INITIALIZING
              /\ \A p \in Keys(contributions) \ Range(loadQueue[i].pluginIds) :
                    p \in Keys(contributions') /\ Get(contributions', p) = Get(contributions, p)
              /\ Keys(contributions') =
                    Keys(contributions) \cup (Range(loadQueue[i].pluginIds) \cap Range(deployed))

\* C4: syncPlugins disposes and drops every tracked id that is absent from the
\* deployed ids it was given, tracks every untracked deployed id whose record was
\* returned with a new entry in state INITIALIZING, and leaves every entry that is
\* still deployed as it was.
C4_Sync == [][C4_Step]_vars

\* A sync has just ended that removed an entry, kept a started one and added one.
C4_Witness ==
    /\ fired = 1
    /\ \E i \in DOMAIN loadQueue : loadQueue[i].pc = "wait_layout" /\ loadQueue[i].toUnload # {}
    /\ \E n \in DOMAIN contributions : contributions[n].state = STARTED
    /\ \E n \in DOMAIN contributions : contributions[n].state = INITIALIZING

\* The disposables of an entry other than its stop actions.
Static(e) == SelectSeq(e.disp, LAMBDA d : d.kind # "stop")

\* One step of the model compared with what a connection close has to do.
C5_Step ==
    (connected /\ ~connected') =>
        /\ Len(contributions') = Len(contributions)
        /\ \A n \in DOMAIN contributions :
              /\ contributions'[n].id = contributions[n].id
              /\ contributions'[n].state =
                    IF contributions[n].state \in {STARTING, STARTED} THEN LOADED
                    ELSE contributions[n].state
              /\ Static(contributions'[n]) = Static(contributions[n])
        /\ registered' = registered
        /\ stopped' = <<>>

\* C5: when the connection closes, every entry that was STARTING or STARTED is
\* LOADED afterwards, every entry stays in the tracker with its static
\* contributions registered, and no disposal list is run.
C5_Disconnect == [][C5_Step]_vars

\* The connection has closed on a pass whose start calls were in flight: the
\* plugin is tracked, LOADED, and its static contributions are registered.
C5_Witness ==
    /\ ~connected
    /\ done = "disconnected"
    /\ \E n \in DOMAIN contributions :
          contributions[n].state = LOADED /\ registered[contributions[n].id] = 1

\* The stop calls of one step compared with the entries the step removes.
C6_Step ==
    /\ \A n \in DOMAIN contributions :
          LET e == contributions[n]
          IN  (e.state = STARTED /\ e.id \notin Keys(contributions')) =>
                  /\ Cardinality({j \in DOMAIN stopped' : stopped'[j][1] = e.id}) = 1
                  /\ \A j \in DOMAIN stopped' :
                        stopped'[j][1] = e.id => Disp("stop", e.id, stopped'[j][2]) \in Range(e.disp)
    /\ \A j \in DOMAIN stopped' :
          stopped'[j][1] \in Keys(contributions) \ Keys(contributions')

\* C6: when a plugin that is STARTED disappears from the deployment snapshot, the
\* sync issues $stop for its id exactly once, on the channel it was started
\* through, and drops its entry; $stop is issued for an id at no other time.
C6_StopOnce == [][C6_Step]_vars

\* The events the channel of host h has been told about.
Received(h) == rpc[h].carried \cup {e \in AllEvents : rpc[h].notified[e] > 0}

\* The start calls issued by the step.
NewTasks ==
    UNION {IF i \in DOMAIN loadQueue THEN loadQueue'[i].tasks \ loadQueue[i].tasks
           ELSE loadQueue'[i].tasks : i \in DOMAIN loadQueue'}

C7_Received == \A h \in Hosts : rpc[h].startIssued => activationEvents \subseteq Received(h)

C7_Carried == \A t \in NewTasks : t.events = activationEvents

\* C7: every channel on which a start call has been issued has received every
\* event of the accumulated set, in the list of a start call or by a notification
\* of its own, and every start call carries the whole set as it is when the call
\* is issued.
C7_Replay == []C7_Received /\ [][C7_Carried]_vars

\* A started channel that got one event with its start call only and another one
\* by notification only.
C7_Witness ==
    \E h \in Hosts :
        /\ rpc[h].startIssued
        /\ \E e \in rpc[h].carried : rpc[h].notified[e] = 0
        /\ \E e \in AllEvents : rpc[h].notified[e] > 0 /\ e \notin rpc[h].carried

C8_Answered ==
    \A r \in returned : r.fresh => \A h \in r.live : r.event \in rpc[h].activated

C8_Step ==
    /\ \A e \in activationEvents' \ activationEvents : \A h \in Hosts :
          rpc'[h].notified[e] = rpc[h].notified[e] + (IF h \in managers THEN 1 ELSE 0)
    /\ \A e \in AllEvents : \A h \in Hosts :
          rpc'[h].notified[e] > rpc[h].notified[e] => e \in activationEvents' \ activationEvents
    /\ (\E r \in returned' : ~r.fresh) =>
          /\ activationEvents' = activationEvents
          /\ rpc' = rpc
          /\ activations' = activations
          /\ UNCHANGED <<managers, contributions, loadQueue, retired, registered>>

\* C8: activateByEvent for an event that is not in the set adds it, sends exactly
\* one notification to every channel in the registry and returns only when all of
\* them have answered; for an event that is in the set it sends nothing and
\* changes nothing.
C8_Activate == []C8_Answered /\ [][C8_Step]_vars

\* A call that added its event has returned after its channels answered.
C8_Witness == \E r \in returned : r.fresh /\ r.live # {}

\* C9: when a call of activateByEvent returns, every channel that was in the
\* registry when the call was made has completed the activation for the event.
C9_Blocks ==
    \A r \in returned : \A h \in r.live : r.event \in rpc[h].activated

\* C10: the promise handed to waitUntil for a command that a plugin declares is
\* resolved as soon as the activation has completed or a handler for the command
\* has been registered.
C10_Race ==
    \A x \in interceptions : HasCommand(x.cmd) => ~x.activated /\ ~x.handler


\* A start call that carries the entry is in flight on the chain q.
CarriedBy(q, id) == \E i \in DOMAIN q : \E t \in q[i].tasks : id \in Range(t.entries)

\* The step in which obtainManager fails for one host of a pass, compared with
\* what the other hosts of the pass are due.
C11_Step ==
    \A i \in DOMAIN loadQueue :
        LET p == loadQueue[i]
        IN  (p.pc \in {"obtain_api", "obtain_init"} /\ ~Disposed(p.td) /\ done' = "failed") =>
                \A k \in DOMAIN p.byHost \ {p.k} : \A id \in Range(p.byHost[k].entries) :
                    id \in Keys(contributions') =>
                        \/ Get(contributions', id).state = STARTED
                        \/ CarriedBy(loadQueue', id)

\* C11: within one pass of startPlugins over several hosts, a failure while
\* starting one host does not keep any other host of the pass from receiving its
\* start call: when the handshake of one host fails, every entry enqueued for
\* another host is STARTED or is carried by a start call in flight.
C11_Isolated == [][C11_Step]_vars


\* The entry is in one of the lists of the mapping.
Enqueued(byHost, id) == \E k \in DOMAIN byHost : id \in Range(byHost[k].entries)

\* The passes of the chain q that are at one of the given suspension points.
At(q, pcs) == {i \in DOMAIN q : q[i].pc \in pcs}

\* loadContributions is called in the step: the pass that was waiting for the
\* layout with toDisconnect intact has gone on.
LoadStep ==
    /\ \E i \in At(loadQueue, {"wait_layout"}) : ~Disposed(loadQueue[i].td)
    /\ At(loadQueue', {"wait_layout"}) = {}

\* The mapping loadContributions has returned to the pass in the chain q.
Returned(q) == {q[i].byHost : i \in At(q, {"wait_ready"})}

\* The steps in which a start call ends and in which the next pass loads.
C12_Step ==
    /\ \A id \in Keys(contributions) :
          (/\ Get(contributions, id).state = STARTING
           /\ CarriedBy(loadQueue, id) /\ ~CarriedBy(loadQueue', id)
           /\ connected') =>
              id \in Keys(contributions') /\ Get(contributions', id).state \in {STARTING, STARTED}
    /\ LoadStep =>
          \A id \in Keys(contributions) :
              (Get(contributions, id).state = STARTING /\ ~CarriedBy(loadQueue, id)) =>
                  \E byHost \in Returned(loadQueue') : Enqueued(byHost, id)

\* C12: when the start call of a host fails, its entries remain STARTING and
\* tracked, and the next pass enqueues them for a new start call without a
\* disconnect in between: loadContributions enqueues every tracked entry that is
\* STARTING with no start call in flight.
C12_Retry == [][C12_Step]_vars

\* The step in which loadContributions is called, compared with a call that
\* returns and leaves at most the one plugin whose registration failed behind.
C13_Step ==
    LoadStep =>
        /\ done' # "failed"
        /\ Returned(loadQueue') # {}
        /\ \A n \in DOMAIN contributions' : contributions'[n].state # LOADING
        /\ Cardinality({id \in Keys(contributions) :
                /\ Get(contributions, id).state = INITIALIZING
                /\ ~(/\ Get(contributions', id).state = STARTING
                      /\ \E byHost \in Returned(loadQueue') : Enqueued(byHost, id))}) <= 1

\* C13: loadContributions never throws: when registering the static contributions
\* of one plugin fails the call still returns, every other entry that was
\* INITIALIZING is STARTING and enqueued, and no entry is left in LOADING.
C13_NeverThrows == [][C13_Step]_vars


\* The places of the entry in the mapping: <<position of the key, position in its list>>.
Places(byHost, id) ==
    {x \in UNION {{<<k, n>> : n \in DOMAIN byHost[k].entries} : k \in DOMAIN byHost} :
        byHost[x[1]].entries[x[2]] = id}

\* The step in which loadContributions returns, compared with the mapping due.
C14_Step ==
    \A byHost \in Returned(loadQueue') :
        LoadStep =>
            LET advanced == {id \in Keys(contributions) :
                                /\ Get(contributions, id).state # STARTING
                                /\ Get(contributions', id).state = STARTING}
            IN  /\ \A id \in advanced :
                      /\ Cardinality(Places(byHost, id)) = 1
                      /\ \A x \in Places(byHost, id) : byHost[x[1]].host = HostKey(id)
                /\ \A k \in DOMAIN byHost : Range(byHost[k].entries) \subseteq advanced
                /\ \A k, l \in DOMAIN byHost : byHost[k].host = byHost[l].host => k = l

\* C14: the mapping returned by loadContributions holds every entry the call
\* advanced to STARTING exactly once, under 'frontend' when the plugin has a
\* frontend entry point and under its declared host otherwise; nothing else is in
\* the mapping and no list is reachable under two keys.
C14_Mapping == [][C14_Step]_vars


\* The pass is inside obtainManager, between creating the channel and the end of
\* its handshake.
InHandshake(p) == p.pc \in {"obtain_api", "obtain_init"}

\* The connection closed during the handshake: the channel is out of the registry,
\* its transport is disposed and carries no start call.
C15_Discarded ==
    \A i \in DOMAIN loadQueue :
        LET p == loadQueue[i]
            h == p.byHost[p.k].host
        IN  (InHandshake(p) /\ Disposed(p.td)) =>
                h \notin managers /\ ~rpc[h].transport /\ ~rpc[h].startIssued

\* A start call is issued only on a registered channel whose handshake is complete.
C15_StartAfterInit ==
    \A h \in Hosts : rpc[h].startIssued => rpc[h].initDone /\ h \in managers

\* The step in which obtainManager ends for a pass whose connection has closed
\* during the handshake, be it the close itself, which ends the wait for $init,
\* or the answer to getExtPluginAPI after the close: obtainManager returns no
\* channel, startPlugins returns, and nothing is created or started.
C15_Step ==
    \A i \in DOMAIN loadQueue :
        LET p == loadQueue[i]
            h == p.byHost[p.k].host
            closing == connected /\ ~connected'
        IN  (/\ InHandshake(p) /\ (Disposed(p.td) \/ closing)
             /\ At(loadQueue', {"obtain_api", "obtain_init"}) = {}) =>
                /\ done' = "disconnected"
                /\ h \notin managers' /\ ~rpc'[h].transport
                /\ ~closing => managers' = managers /\ rpc' = rpc
                /\ \A j \in DOMAIN loadQueue' : loadQueue'[j].tasks = {}

\* C15: if the connection closes while the initialization handshake of a new
\* channel is in progress, obtainManager returns no channel, the partially
\* constructed channel is not in the registry afterwards, and no start call is
\* ever issued on it.
C15_Cancelled == [](C15_Discarded /\ C15_StartAfterInit) /\ [][C15_Step]_vars

\* A transport as initRpc creates it: open, with no handshake and no start call.
FreshChannel == [NoChannel EXCEPT !.transport = TRUE]

\* The registry holds exactly the hosts whose transport is open.
C16_Registry == \A h \in Hosts : h \in managers <=> rpc[h].transport

\* A close tears every channel down; a host enters the registry only with a new
\* transport, and a handshake completes only on the transport it was sent on.
C16_Step ==
    /\ (connected /\ ~connected') =>
          managers' = {} /\ \A h \in Hosts : rpc'[h] = NoChannel
    /\ \A h \in Hosts :
          /\ (h \notin managers /\ h \in managers') => rpc'[h] = FreshChannel
          /\ (~rpc[h].initDone /\ rpc'[h].initDone) => rpc[h].transport /\ rpc[h].initSent

\* C16: after a channel is torn down by a disconnect its transport is disposed and
\* its host key is absent from the registry, so the next obtainManager for the
\* host creates a new transport and performs a new handshake; a torn-down channel
\* is never returned again.
C16_Teardown == []C16_Registry /\ [][C16_Step]_vars

\* The connection has closed on a pass that was awaiting its start calls: the
\* channels they were sent on are gone.
C16_Witness ==
    /\ ~connected /\ done = "disconnected"
    /\ managers = {} /\ \A h \in Hosts : rpc[h] = NoChannel
    /\ \E n \in DOMAIN contributions : contributions[n].state = LOADED


\* Transports of the host that were created and not disposed: one disposable per
\* transport, found by position in the collections that hold them.
Transports(q, r, h) ==
    Cardinality({j \in DOMAIN r : r[j] = Disp("rpc", "", h)})
    + Cardinality({x \in UNION {{<<i, j>> : j \in DOMAIN q[i].td} : i \in DOMAIN q} :
                      q[x[1]].td[x[2]] = Disp("rpc", "", h)})

\* At most one transport per host is open, and it is the one the registry names.
C17_OneTransport ==
    \A h \in Hosts :
        /\ Transports(loadQueue, retired, h) <= 1
        /\ Transports(loadQueue, retired, h) = 1 <=> rpc[h].transport

\* A channel that stays open keeps its handshake: no step sends $init again on
\* it or replaces it, and a start call on a channel found in the registry
\* creates no transport.
C17_Step ==
    \A h \in Hosts :
        (rpc[h].transport /\ rpc'[h].transport) =>
            /\ Transports(loadQueue', retired', h) = Transports(loadQueue, retired, h)
            /\ rpc[h].initSent => rpc'[h].initSent
            /\ rpc[h].initDone => rpc'[h].initDone
            /\ rpc[h].startIssued => rpc'[h].startIssued

\* C17: there is at most one live transport per host key, and obtainManager for a
\* host key that already has a channel returns that channel without creating a
\* transport or repeating the handshake.
C17_Shared == []C17_OneTransport /\ [][C17_Step]_vars

\* A start call is in flight on a channel that its pass found in the registry:
\* the transport was created by an earlier pass.
C17_Witness ==
    \E i \in DOMAIN loadQueue : \E t \in loadQueue[i].tasks :
        /\ Disp("rpc", "", t.host) \notin Range(loadQueue[i].td)
        /\ rpc[t.host].initDone
        /\ Transports(loadQueue, retired, t.host) = 1


\* The assignments to PluginContributions.state the lifecycle allows: the four
\* forward steps and the downgrade on disconnect.
Lifecycle ==
    {<<INITIALIZING, LOADING>>, <<LOADING, LOADED>>, <<LOADED, STARTING>>, <<STARTING, STARTED>>,
     <<STARTING, LOADED>>, <<STARTED, LOADED>>}

\* One step of the model on one entry that stays tracked. loadContributions takes
\* an entry from INITIALIZING through LOADING and LOADED to STARTING within one
\* synchronous call, which is one step here.
C18_Step ==
    \A id \in Keys(contributions) \cap Keys(contributions') :
        LET from == Get(contributions, id).state
            to == Get(contributions', id).state
        IN  \/ from = to
            \/ <<from, to>> \in Lifecycle
            \/ /\ from = INITIALIZING /\ to = STARTING
               /\ LoadStep

\* C18: the state of a tracked entry changes only by INITIALIZING to LOADING,
\* LOADING to LOADED, LOADED to STARTING, STARTING to STARTED, and by the
\* disconnect downgrade from STARTING or STARTED to LOADED.
C18_Lifecycle == [][C18_Step]_vars

\* One entry has been started after a downgrade while another was left behind by
\* a failed registration.
C18_Witness ==
    /\ \E n \in DOMAIN contributions : contributions[n].state = STARTED
    /\ \E n \in DOMAIN contributions : contributions[n].state = LOADING


\* syncPlugins is in one of its two requests.
InSync == {"sync_ids", "sync_plugins"}

\* The step in which a call of syncPlugins ends, by an answer or by a rejection,
\* compared with what the call as a whole added and removed: what the first
\* answer removed is kept in toUnload, the second answer only adds.
C19_Step ==
    \A i \in At(loadQueue, InSync) :
        LET p == loadQueue[i]
            removed == IF p.pc = "sync_ids" THEN Keys(contributions) \ Keys(contributions')
                       ELSE p.toUnload
            added == Keys(contributions') \ Keys(contributions)
        IN  IF At(loadQueue', InSync) = {}
            THEN fired' = IF added # {} \/ removed # {} THEN 1 ELSE 0
            ELSE fired' = 0

\* C19: in every call of syncPlugins, whether the deployment source answers or
\* fails, onDidChangePlugins fires exactly once if the call added or removed at
\* least one tracked entry and not at all if it added and removed none.
C19_Batched == [][C19_Step]_vars


\* The answer to getDeployedPluginIds arrives for a tracker that a sync has
\* already brought to this snapshot: the run is over with that answer, and it
\* has changed nothing and fired nothing.
C20_Step ==
    (/\ At(loadQueue, {"sync_ids"}) # {} /\ At(loadQueue', {"sync_ids"}) = {}
     /\ Keys(contributions) = Range(deployed)) =>
        /\ contributions' = contributions
        /\ registered' = registered
        /\ stopped' = <<>>
        /\ fired' = 0
        /\ At(loadQueue', {"sync_plugins"}) = {}

\* C20: running syncPlugins twice in a row against the same deployment snapshot
\* leaves the tracker after the second run equal to the tracker after the first,
\* the second run adds and removes nothing, and onDidChangePlugins fires at most
\* once over the two runs: a run against a snapshot the tracker already matches
\* changes nothing and fires nothing.
C20_Idempotent == [][C20_Step]_vars

\* A second sync against the same snapshot has just ended: every deployed plugin
\* was tracked and loaded before it, and it has unloaded and requested nothing.
C20_Witness ==
    /\ fired = 0 /\ contributions # <<>> /\ Keys(contributions) = Range(deployed)
    /\ \A n \in DOMAIN contributions : contributions[n].state \in {LOADED, STARTED}
    /\ \E i \in At(loadQueue, {"wait_layout"}) :
          /\ ~Disposed(loadQueue[i].td)
          /\ loadQueue[i].toUnload = {} /\ loadQueue[i].pluginIds = <<>>


\* The sequence s from its last element to its first.
Reverse(s) == [j \in DOMAIN s |-> s[Len(s) + 1 - j]]

\* Every plugin that is not tracked has its static contributions unregistered:
\* no disposal is left over between two steps, so none is when a pass begins.
C21_NothingPending == \A id \in PluginIds \ Keys(contributions) : registered[id] = 0

\* The step in which the answer to getDeployedPluginIds removes entries: for each
\* of them the disposables run are its whole list, last registered first, and
\* their effects are there after the step.
C21_Step ==
    \A i \in At(loadQueue, {"sync_ids"}) :
        (At(loadQueue', {"sync_ids"}) = {} /\ Keys(contributions) # Keys(contributions')) =>
            LET w == SyncIds(World, i, deployed)
            IN  \A id \in Keys(contributions) \ Keys(contributions') :
                    LET e == Get(contributions, id)
                        stops == SelectSeq(Reverse(e.disp), LAMBDA d : d.kind = "stop")
                    IN  /\ id \notin Range(deployed)
                        /\ SelectSeq(w.ran, LAMBDA d : d.id = id) = Reverse(e.disp)
                        /\ SelectSeq(stopped', LAMBDA x : x[1] = id) =
                              [j \in DOMAIN stops |-> <<id, stops[j].host>>]
                        /\ registered'[id] = 0

\* C21: when an id is removed from the deployment snapshot, the sync step that
\* observes the removal runs the whole disposal list of the entry (stop call if
\* started, unregistration of the static contributions, removal from the
\* tracker) in reverse order of registration, and all of it has run before the
\* next pass begins.
C21_RemovalDisposes == []C21_NothingPending /\ [][C21_Step]_vars

\* A started plugin has just been removed: it was stopped, its contributions
\* are unregistered and it is not tracked.
C21_Witness ==
    \E id \in PluginIds \ Keys(contributions) :
        /\ registered[id] = 0
        /\ \E j \in DOMAIN stopped : stopped[j][1] = id


\* A gate is resolved exactly when a deploy call of its own target has run to its end.
C22_Gate == \A t \in Targets : deployer.gate[t] <=> deployer.completed[t] > 0

\* A getDeployed...Metadata call returns only behind a resolved gate, and returns
\* every record its registry holds at that moment.
C22_Step ==
    \A t \in Targets :
        (deployer'.answer # <<>> /\ deployer'.answer[1].target = t) =>
            /\ deployer.waiting[t] > 0
            /\ deployer.completed[t] > 0
            /\ deployer'.answer[1].value = deployer'.metadata[t]

\* A call waiting behind a resolved gate returns.
C22_Resolves ==
    \A t \in Targets :
        (deployer.waiting[t] > 0 /\ deployer.gate[t]) ~>
            (deployer.answer # <<>> /\ deployer.answer[1].target = t)

\* C22: getDeployedFrontendMetadata does not resolve before the first
\* deployFrontendPlugins call has completed, resolves once a call has completed
\* even if it deployed no plugin, and every later call returns all the frontend
\* records registered at that moment; the same holds for the backend target, and
\* deploying for one target never resolves the gate of the other.
C22_ReadinessGates == []C22_Gate /\ [][C22_Step]_vars /\ C22_Resolves

\* A frontend reader has got the empty list after a deploy call without plugins,
\* while a backend reader is still waiting behind its own gate.
C22_Witness ==
    /\ deployer.answer = <<[target |-> "frontend", value |-> <<>>]>>
    /\ deployer.completed["frontend"] > 0
    /\ ~deployer.gate["backend"]
    /\ deployer.waiting["backend"] > 0

\* No id is twice in a registry, and no log entry is written twice.
C23_Once ==
    /\ \A t \in Targets :
          \A j, k \in DOMAIN deployer.metadata[t] :
              deployer.metadata[t][j].id = deployer.metadata[t][k].id => j = k
    /\ \A j, k \in DOMAIN deployer.log : deployer.log[j] = deployer.log[k] => j = k
    /\ \A t \in Targets :
          Keys(deployer.metadata[t]) = {x[2] : x \in {y \in Range(deployer.log) : y[1] = t}}

\* A record that is registered stays as it is.
C23_Step ==
    \A t \in Targets :
        \A id \in Keys(deployer.metadata[t]) :
            /\ id \in Keys(deployer'.metadata[t])
            /\ Get(deployer'.metadata[t], id) = Get(deployer.metadata[t], id)

\* C23: for any sequence of deploy calls for one target, overlapping calls that
\* name the same plugin included, each plugin id is registered at most once, the
\* record kept for an id is that of its first registration, and the deployment
\* log entry of the id is written at most once.
C23_FirstWins == []C23_Once /\ [][C23_Step]_vars

\* A deploy call has gone past a1 while the registry of its target holds the
\* version of the same plugin that another call registered from a2.
C23_Witness ==
    \E j \in DOMAIN deployer.calls :
        LET call == deployer.calls[j]
        IN  /\ call.k > 1
            /\ call.plugins[1] = "a1"
            /\ "a" \in Keys(deployer.metadata[call.target])
            /\ Get(deployer.metadata[call.target], "a").path = "a2/"

\* The paths of a batch whose metadata can be loaded.
Loadable(plugins) ==
    {plugins[j] : j \in {k \in DOMAIN plugins : plugins[k] \notin {"", "bad", "none"}}}

\* A deploy call that ends has not failed, its gate is resolved, and every plugin
\* of its batch that has metadata is registered.
C24_Ended ==
    deployer.ended # <<>> =>
        LET call == deployer.ended[1]
        IN  /\ ~call.rejected
            /\ deployer.gate[call.target]
            /\ \A pluginPath \in Loadable(call.plugins) :
                   LoadPluginMetadata(pluginPath \o "/").value.id
                       \in Keys(deployer.metadata[call.target])

\* Nothing is registered for a path without metadata.
C24_Skipped ==
    \A t \in Targets :
        \A j \in DOMAIN deployer.metadata[t] :
            deployer.metadata[t][j].path \in {"a1/", "a2/", "b/"}

\* C24: when the metadata of one plugin of a deploy batch cannot be loaded or is
\* absent, that plugin is skipped, every other plugin of the batch is registered,
\* the deploy call does not fail, and the gate of the target is resolved at the
\* end of the call.
C24_LoadFailureIsolated == C24_Ended /\ C24_Skipped

\* The call deploying bad and b has ended: b is registered and the gate resolved.
C24_Witness ==
    /\ deployer.ended = <<[target |-> "frontend", plugins |-> <<"bad", "b">>, rejected |-> FALSE]>>
    /\ Keys(deployer.metadata["frontend"]) = {"b"}
    /\ deployer.gate["frontend"]


\* C25: in one run of the workspace-contains probe the install event
\* onPlugin:<id> is sent at most once, and exactly once when some branch matches,
\* whatever the outcomes of the timer, the path check and the search.
C25_InstallOnce ==
    /\ Len(probe.sent) <= 1
    /\ (probe.pc = "returned" /\ (probe.contains = "true" \/ probe.find = "true")) =>
          Len(probe.sent) = 1

\* The step in which the timer expires cancels the search and sends the install event.
C26_Step ==
    (probe.timer = "armed" /\ probe'.timer = "fired") =>
        /\ probe'.cancelled
        /\ probe'.sent = Append(probe.sent, InstallEvent(probe.id))

\* C26: with a pattern trigger and a search that never completes, the timer
\* eventually expires, cancels the search and sends the install event.
C26_FailOpen ==
    /\ [][C26_Step]_vars
    /\ (probe.pc = "probing" /\ probe.includePatterns # {} /\ probe.endless) ~>
          (probe.timer = "fired" /\ probe.cancelled /\ InstallEvent(probe.id) \in Range(probe.sent))

\* The timer has fired on a search that is still running: the token is cancelled
\* and the install event has been sent.
C26_Witness ==
    /\ probe.endless /\ probe.find = "pending"
    /\ probe.timer = "fired" /\ probe.cancelled
    /\ probe.sent = <<InstallEvent(probe.id)>>


\* A load signal: onStart, onDidDeploy or onDidOpenConnection.
Signal == container' # container \/ deployed' # deployed \/ (~connected /\ connected')

\* The debounce window ends.
WindowEnds == debounce.timer /\ ~debounce'.timer

Schedules == loadQueue' = Append(loadQueue, NewPass)

\* The signal that opens a window schedules a pass; a signal inside a window
\* schedules none and is remembered.
C27_Signals ==
    /\ (Signal /\ ~debounce.timer) => (Schedules /\ debounce'.timer /\ ~debounce'.lastArgs)
    /\ (Signal /\ debounce.timer) => (loadQueue' = loadQueue /\ debounce'.timer /\ debounce'.lastArgs)

\* C27 as stated: any burst of one or more load signals that all arrive within
\* one debounce window causes exactly one pass to be scheduled: the end of the
\* window schedules nothing.
C27_OnePerBurst == [][C27_Signals /\ (WindowEnds => loadQueue' = loadQueue)]_vars

\* C27 amended: a burst of load signals within one debounce window schedules one
\* pass when its first signal arrives, and, if it has more than one signal, one
\* more pass when the window ends; a burst of one signal schedules exactly one.
C27_LeadingAndTrailing ==
    [][C27_Signals /\ (WindowEnds => IF debounce.lastArgs THEN Schedules
                                     ELSE loadQueue' = loadQueue)]_vars

\* A second signal has arrived inside the window that the first one opened.
C27_Witness == debounce.timer /\ debounce.lastArgs /\ loadQueue # <<>>


\* Where the pass in flight stands; idle when none is.
Cur(q) ==
    IF \E i \in DOMAIN q : Running(q[i])
    THEN q[CHOOSE i \in DOMAIN q : Running(q[i])].pc
    ELSE "idle"

\* The steps of doLoad in the order of its code: syncPlugins, the wait for the
\* layout, loadContributions with the wait for the widgets and the ready promise
\* behind it, and startPlugins.
Phase(pc) ==
    CASE pc \in InSync -> 1
      [] pc = "wait_layout" -> 2
      [] pc = "wait_ready" -> 3
      [] pc \in {"obtain_api", "obtain_init", "join", "return"} -> 4
      [] OTHER -> 0

\* The step tracks or drops an entry: the work of the snapshot sync.
SyncEffect == Keys(contributions') # Keys(contributions)

\* The step registers static contributions or moves an entry out of INITIALIZING
\* or into STARTING: the work of the contribution load.
LoadEffect ==
    \/ \E id \in PluginIds : registered'[id] > registered[id]
    \/ \E id \in Keys(contributions) \cap Keys(contributions') :
          LET from == Get(contributions, id).state
              to == Get(contributions', id).state
          IN  from # to /\ (from = INITIALIZING \/ to = STARTING)

\* The step creates a channel, sends $init or $start, or sets an entry to STARTED:
\* the work of the plugin start.
StartEffect ==
    \/ \E h \in Hosts :
          \/ ~rpc[h].transport /\ rpc'[h].transport
          \/ ~rpc[h].initSent /\ rpc'[h].initSent
          \/ ~rpc[h].startIssued /\ rpc'[h].startIssued
    \/ \E id \in Keys(contributions) \cap Keys(contributions') :
          Get(contributions, id).state # STARTED /\ Get(contributions', id).state = STARTED

\* A pass moves through its steps one by one and never back.
Forward ==
    (Cur(loadQueue) # "idle" /\ Cur(loadQueue') # "idle") =>
        Phase(Cur(loadQueue')) \in {Phase(Cur(loadQueue)), Phase(Cur(loadQueue)) + 1}

\* C29 as stated: within every pass the steps occur in the order snapshot sync,
\* contribution load, layout-ready wait, plugin start, none beginning before the
\* one before it has finished: the contributions are loaded before the wait for
\* the layout begins.
C29_LoadBeforeLayout ==
    [][/\ Forward
       /\ SyncEffect => Cur(loadQueue) \in InSync
       /\ LoadEffect => Cur(loadQueue) \in InSync
       /\ StartEffect => Phase(Cur(loadQueue)) \in {3, 4}]_vars

\* C29 amended: within every pass the steps occur in the order snapshot sync,
\* layout-ready wait, contribution load, the wait for the widgets and the ready
\* promise, plugin start; no step of a pass begins before the preceding step of
\* that pass has finished.
C29_Ordered ==
    [][/\ Forward
       /\ SyncEffect => Cur(loadQueue) \in InSync
       /\ LoadEffect => (Cur(loadQueue) = "wait_layout" /\ Cur(loadQueue') = "wait_ready")
       /\ StartEffect => Phase(Cur(loadQueue)) \in {3, 4}]_vars

\* The pass has loaded the contributions of a plugin it tracked and waits before
\* it starts it.
C29_Witness ==
    /\ Cur(loadQueue) = "wait_ready"
    /\ \E id \in Keys(contributions) :
          Get(contributions, id).state = STARTING /\ registered[id] > 0


\* The connection was closed while the pass in flight was running: its
\* toDisconnect is disposed.
Superseded == \E i \in DOMAIN loadQueue : Running(loadQueue[i]) /\ Disposed(loadQueue[i].td)

\* The connection closes while a pass is in flight.
Closing == connected /\ ~connected' /\ \E i \in DOMAIN loadQueue : Running(loadQueue[i])

\* The close of the connection during the pass in flight, and every step taken
\* while the pass is superseded, registers no static contributions, creates no
\* channel, sends neither $init nor $start and sets no entry to STARTED; the step
\* in which the pass ends reports no error.
C28_Step ==
    (Superseded \/ Closing) =>
        /\ ~LoadEffect
        /\ ~StartEffect
        /\ done' # "failed"
        /\ Cur(loadQueue') = "idle" => done' = "disconnected"

\* C28: once the connection-close event has fired during a pass, that pass
\* performs no further externally visible action: it registers no static
\* contributions, sends no initialization handshake, issues no start call and
\* sets no entry to STARTED, and it ends without raising an error.
C28_Silent == [][C28_Step]_vars

\* The start calls in flight.
AllTasks(q) == UNION {q[i].tasks : i \in DOMAIN q}

\* The record of a plugin without contributes and activationEvents.
Minimal(metadata, id) ==
    /\ metadata.host = PluginRecord(id).host
    /\ DOMAIN metadata.model = {"id", "entryPoint"}
    /\ \A x \in DOMAIN metadata.model : metadata.model[x] = PluginRecord(id).model[x]

\* The records of the tracker are whole.
C30_Tracker ==
    \A n \in DOMAIN contributions : contributions[n].plugin = PluginRecord(contributions[n].id)

\* A step of the loop of startPlugins that issues start calls: one call for each
\* host the loop has gone past in the step, with the entries the mapping has for
\* that host and their minimized records.
C30_Step ==
    LET new == AllTasks(loadQueue') \ AllTasks(loadQueue)
    IN  new # {} =>
          \E i \in At(loadQueue, {"wait_ready", "obtain_init"}) :
              LET p == loadQueue[i]
                  from == IF p.pc = "wait_ready" THEN 1 ELSE p.k
                  to == IF loadQueue'[i].k = 0 THEN Len(p.byHost) ELSE loadQueue'[i].k - 1
              IN  /\ loadQueue'[i].byHost = p.byHost
                  /\ new \subseteq loadQueue'[i].tasks
                  /\ Cardinality(new) = Cardinality(from..to)
                  /\ \A k \in from..to :
                        \E t \in new :
                            /\ t.host = p.byHost[k].host
                            /\ t.entries = p.byHost[k].entries
                            /\ DOMAIN t.plugins = DOMAIN t.entries
                            /\ \A n \in DOMAIN t.entries : Minimal(t.plugins[n], t.entries[n])

\* C30: in one pass of startPlugins each host key of the mapping receives exactly
\* one start call, which carries all entries enqueued for that host; the plugin
\* records in the call have no contributions and no activation events, while the
\* records held by the tracker are unchanged.
C30_OneCallPerHost == []C30_Tracker /\ [][C30_Step]_vars

\* Both hosts have their start call in flight, each with minimized records, and
\* the tracker has the whole records.
C30_Witness ==
    \E i \in DOMAIN loadQueue :
        /\ loadQueue[i].pc = "join"
        /\ {t.host : t \in loadQueue[i].tasks} = Hosts
        /\ \A t \in loadQueue[i].tasks :
              \A n \in DOMAIN t.plugins : "contributes" \notin DOMAIN t.plugins[n].model
        /\ \E n \in DOMAIN contributions : contributions[n].plugin.model.contributes # {}


\* A search that ends without a match while the timer is armed clears the timer,
\* and a cleared timer never fires.
C31_Step ==
    /\ (probe.find = "pending" /\ probe'.find = "false" /\ probe.timer = "armed") =>
          probe'.timer = "cleared"
    /\ probe.timer = "cleared" => probe'.timer = "cleared"

\* After such a search the install event has been sent exactly if an exact path
\* was found, and then once.
C31_PathOnly ==
    (probe.timer = "cleared" /\ probe.find = "false") =>
        /\ ~probe.cancelled
        /\ Len(probe.sent) <= 1
        /\ probe.sent # <<>> <=> probe.contains = "true"

\* C31: when the pattern search of the prober ends before the timer expires with
\* an error that is not a cancellation, or with no result, the pattern branch
\* counts as no match and the timer is cancelled: the install event is then sent
\* only if an exact-path trigger exists in the workspace, and no fallback
\* activation happens later.
C31_FailClosed == []C31_PathOnly /\ [][C31_Step]_vars

\* The search has failed with a logged error before the timer fired, the path
\* check has matched, and the run has returned after one install event.
C31_Witness ==
    /\ probe.pc = "returned"
    /\ probe.timer = "cleared" /\ probe.find = "false" /\ probe.logged
    /\ probe.contains = "true"
    /\ probe.sent = <<InstallEvent(probe.id)>>


\* The places of doLoad at which a pass can stand.
InDoLoad == {"sync_ids", "sync_plugins", "wait_layout", "wait_ready", "obtain_api",
             "obtain_init", "join", "return"}

Busy == \E i \in DOMAIN loadQueue : loadQueue[i].pc \in InDoLoad

Pending == \E i \in DOMAIN loadQueue : loadQueue[i].pc = "scheduled"

\* A scheduled pass waits for passes that are running or scheduled only: with no
\* pass in doLoad, the first scheduled pass can begin.
C32_NotBlocked ==
    (Pending /\ ~Busy) =>
        \E i \in DOMAIN loadQueue : loadQueue[i].pc = "scheduled" /\ ThenReady(loadQueue, i)

\* The step in which a pass fails leaves no pass in doLoad, and a load signal
\* after it schedules as before.
C32_Step ==
    /\ done' = "failed" => ~Busy'
    /\ C27_Signals

\* C32: a pass that fails with an error (the deployment source call or a channel
\* handshake rejects, for example) does not stop the queue: the error is caught,
\* and every load signal that arrives afterwards still leads to a pass being run.
C32_QueueSurvives ==
    /\ []C32_NotBlocked
    /\ [][C32_Step]_vars
    /\ (Pending /\ ~Busy) ~> Busy

\* A pass runs after an earlier pass has thrown out of loadContributions and left
\* an entry in LOADING.
C32_Witness ==
    /\ Busy
    /\ \E n \in DOMAIN contributions : contributions[n].state = LOADING


\* A step of the run taken while its plugin is not live, or after the channel
\* of its manager was disposed, leaves the tracker, the
\* channel registry and the activation events as they are; when the step is the
\* close of the connection, which rejects the pending install call, they are
\* what the close handlers alone make of them.
C33_Step ==
    (/\ probe.pc \in {"probing", "activating"}
     /\ ~Live(probe.id) \/ probe.disposed
     /\ probe' # probe) =>
        /\ activationEvents' = activationEvents
        /\ IF connected /\ ~connected'
           THEN /\ probe' = [probe EXCEPT !.disposed = TRUE,
                                          !.pc = IF @ = "activating" THEN "returned" ELSE @]
                /\ contributions' = Disconnect(World).c
                /\ managers' = Disconnect(World).mgr
           ELSE /\ contributions' = contributions
                /\ managers' = managers

\* C33: a workspace-contains probe that finishes, by a match or by the timer,
\* after its plugin was stopped or removed from the tracker or after its channel
\* was torn down changes nothing in the core state: the tracked entries and their
\* states, the channel registry and the activation-event set are unchanged by the
\* late activation call.
C33_LateProbe == [][C33_Step]_vars

\* The run has sent the install event of a plugin that was started by a pass and
\* was no longer live when the event was sent; no activation event is recorded.
C33_Witness ==
    /\ probe.late /\ probe.sent # <<>>
    /\ probe.id \notin Keys(contributions)
    /\ activationEvents = {}

\* No step takes an event out of the set, and a call for an event of the set
\* leaves the notification counts of every channel as they were.
C34_Step ==
    /\ activationEvents \subseteq activationEvents'
    /\ \A r \in returned' : ~r.fresh =>
          /\ r.event \in activationEvents
          /\ \A h \in Hosts : rpc'[h].notified = rpc[h].notified

\* C34: the activation-event set only grows: an event that was added stays in
\* the set across disconnects, reconnects and rejected notifications, and a
\* later activateByEvent for it sends nothing.
C34_Grows == [][C34_Step]_vars

\* A call for a known event has returned although a channel of the registry was
\* created after the event was added and got it with its start call only.
C34_Witness ==
    \E r \in returned : ~r.fresh /\ \E h \in r.live :
        rpc[h].notified[r.event] = 0 /\ r.event \in rpc[h].carried

\* The calls of wrappers made in the step: new, and nothing they await has answered.
Made == {c \in wrapper' \ wrapper : c.waiting = c.added}

\* The calls that returned in the step after having awaited notifications.
Ended == {c \in wrapper' : c.pc = "returned" /\ c.added # {}}

\* The event a one-event wrapper stands for.
WrappedEvent(name, args) ==
    CASE name = "activateByView" -> "onView:" \o args[1]
      [] name = "activateByLanguage" -> "onLanguage:" \o args[1]
      [] name = "activateByCommand" -> "onCommand:" \o args[1]

\* The events activateByDebug has to fire at least, and those it may fire at most.
DebugAtLeast(a, t) ==
    {"onDebug"} \cup (IF a # <<>> THEN {a[1]} ELSE {})
        \cup (IF a # <<>> /\ t # <<>> /\ t[1] # "" THEN {a[1] \o ":" \o t[1]} ELSE {})
DebugAtMost(a, t) ==
    {"onDebug"} \cup (IF a # <<>> THEN {a[1]} ELSE {})
        \cup (IF a # <<>> /\ t # <<>> THEN {a[1] \o ":" \o t[1]} ELSE {})

\* A call of a one-event wrapper changes what activateByEvent changes and returns
\* when activateByEvent returns; a call of activateByDebug adds its events and
\* notifies every channel of the registry once for each event that is new.
C35_Step ==
    /\ \A c \in Made : c.name # "activateByDebug" =>
          LET r == Activate(WrappedEvent(c.name, c.args))
          IN  /\ activationEvents' = r.events
              /\ rpc' = r.rpc
              /\ activations' = r.calls
              /\ returned' = r.ret
              /\ (c.pc = "returned") = (r.ret # {})
    /\ \A c \in Ended : c.name # "activateByDebug" =>
          \E r \in returned' : r.fresh /\ r.event = WrappedEvent(c.name, c.args)
    /\ \A c \in Made : c.name = "activateByDebug" =>
          LET a == c.args[1]
              t == c.args[2]
          IN  /\ DebugAtLeast(a, t) \subseteq activationEvents'
              /\ activationEvents' \subseteq activationEvents \cup DebugAtMost(a, t)
              /\ \A h \in Hosts : \A e \in AllEvents :
                    rpc'[h].notified[e] = rpc[h].notified[e] +
                        (IF e \in activationEvents' \ activationEvents /\ h \in managers
                         THEN 1 ELSE 0)

\* activateByDebug has returned: its events are in the set, and none of the
\* notifications its activateByEvent calls awaited is pending.
C35_AllCompleted ==
    \A c \in wrapper : (c.name = "activateByDebug" /\ c.pc = "returned") =>
        /\ DebugAtLeast(c.args[1], c.args[2]) \subseteq activationEvents
        /\ \A x \in activations : x.event \notin c.added

\* C35: activateByView(v), activateByLanguage(l) and activateByCommand(c) behave
\* like activateByEvent on 'onView:'+v, 'onLanguage:'+l and 'onCommand:'+c;
\* activateByDebug always fires 'onDebug', the activation event when one is given,
\* '<event>:<debugType>' only when both are given, and returns after all of them
\* have completed.
C35_Wrappers == []C35_AllCompleted /\ [][C35_Step]_vars

\* activateByDebug with both arguments has returned after it awaited the
\* notifications for its three events and a channel completed them, the window
\* of the debounced load having ended before.
C35_Witness ==
    /\ container /\ ~debounce.timer
    /\ \E c \in wrapper :
           /\ c.name = "activateByDebug" /\ c.pc = "returned"
           /\ c.args = <<<<"onDebugResolve">>, <<"node">>>>
           /\ c.added = {"onDebug", "onDebugResolve", "onDebugResolve:node"}
           /\ \E h \in Hosts : c.added \subseteq rpc[h].activated

\* C36: on every host channel the initialization handshake has completed before
\* an activate-by-event notification is sent on it, also when activateByEvent
\* is called while the handshake is in progress.
C36_InitFirst ==
    \A h \in Hosts : \A e \in AllEvents :
        (rpc[h].transport /\ rpc[h].notified[e] > 0) => rpc[h].initDone

\* C37: every channel obtainManager returns has completed its handshake: a channel
\* whose handshake failed is not left in the registry, so no later pass issues a
\* start call on a channel that was never initialized.
C37_Initialized ==
    \A h \in Hosts : (rpc[h].transport /\ rpc[h].startIssued) => rpc[h].initDone

\* The host keys of the start calls that set the entry to STARTED.
StartedThrough(e) == {e.disp[j].host : j \in StartedBy(e)}

\* C38: each tracked entry in state STARTED has a live channel in the registry
\* under the host key it was started through; no entry is STARTED while its
\* channel has been torn down.
C38_LiveChannel ==
    \A n \in DOMAIN contributions :
        contributions[n].state = STARTED =>
            /\ StartedThrough(contributions[n]) # {}
            /\ \A h \in StartedThrough(contributions[n]) : h \in managers /\ rpc[h].transport

\* Two entries are STARTED through different channels, both live, after an
\* earlier pass has returned.
C38_Witness ==
    /\ retired # <<>>
    /\ \E n, m \in DOMAIN contributions :
          /\ contributions[n].state = STARTED /\ contributions[m].state = STARTED
          /\ StartedThrough(contributions[n]) = {"frontend"}
          /\ StartedThrough(contributions[m]) = {"main"}

\* Every stop call of the last step went to a channel that is registered and live.
C39_StopOnLive ==
    \A k \in DOMAIN stopped : stopped[k][2] \in managers /\ rpc[stopped[k][2]].transport

\* An entry that is not STARTED and is taken out of the tracker gets no stop call.
C39_Step ==
    \A n \in DOMAIN contributions :
        LET e == contributions[n]
        IN  (e.state # STARTED /\ e.id \notin Keys(contributions')) =>
                \A k \in DOMAIN stopped' : stopped'[k][1] # e.id

\* C39: a stop call is never issued on a channel that has been torn down: a
\* disconnect detaches the stop action of every started entry without running
\* it, so removing a plugin from the deployment after a disconnect and before it
\* is started again issues no stop call.
C39_NoStopAfterTeardown == []C39_StopOnLive /\ [][C39_Step]_vars

\* A disconnect has set the entry of p3 back to LOADED and detached its stop
\* action, p3 has left the deployment since, and a pass is about to learn so.
C39_Witness ==
    /\ connected
    /\ "p3" \notin Range(deployed)
    /\ \E n \in DOMAIN contributions :
          /\ contributions[n].id = "p3"
          /\ contributions[n].state = LOADED
          /\ StartedBy(contributions[n]) = {}
    /\ \E i \in DOMAIN loadQueue : loadQueue[i].pc = "sync_ids"

\* A call of setSelection leaves the ids of its argument selected and fires the
\* selection event exactly when they differ from the ids selected before.
C40_Step ==
    treeView'.visible = treeView.visible =>
        /\ Range(treeView'.selectedItemIds) = Range(treeView'.ids)
        /\ (treeView'.changed = 1) = (Range(treeView'.ids) # Range(treeView.selectedItemIds))

\* C40: after setSelection(ids), for any current selection and any list ids, the
\* selected item ids equal the set ids, and the selection-changed event fires
\* exactly when that set differs from the previous selection.
C40_Selection == [][C40_Step]_vars

====
